---------------------------- MODULE Spec2Model ----------------------------
(***************************************************************************)
(* A model of the terminal coding agent: the per-turn tool-use loop        *)
(* (runChatLoop), the tool registry and dispatch (runTool), the            *)
(* filesystem tools (write_file, edit_file(s), read_file(s), list_files)   *)
(* with their path resolvers, and the earlier list_files-only chat loop    *)
(* of coder.go.                                                            *)
(*                                                                         *)
(* Strings are sequences of one-character strings.  A message text that    *)
(* the program builds with a format string is a record [fmt, args] of the  *)
(* format string and its arguments.  The filesystem is a function from     *)
(* absolute cleaned paths to nodes; it has no symbolic links and no        *)
(* permissions (an I/O failure is an input of a tool call, see FaultKinds).*)
(***************************************************************************)
EXTENDS Integers, Sequences, FiniteSets, TLC

(***************************************************************************)
(* Program constants.                                                      *)
(***************************************************************************)
defaultListFilesMaxEntries == 500
hardListFilesMaxEntries == 2000
defaultReadFilesMaxBytes == 32000
hardReadFilesMaxBytes == 256000
defaultBashTimeoutSeconds == 30
hardBashTimeoutSeconds == 120
defaultBashMaxOutputBytes == 32000
hardBashMaxOutputBytes == 256000
maxToolRoundsPerTurn == 16
maxRepeatedToolFailures == 2

(***************************************************************************)
(* Bounds of the model.                                                    *)
(***************************************************************************)
\* Path arguments are made of at most MaxPathElems elements joined by "/".
MaxPathElems == 3
\* File contents hold at most MaxContentLen bytes.
MaxContentLen == 3
\* The string arguments content, old_str and new_str hold at most MaxArgLen bytes.
MaxArgLen == 2
\* A session holds at most MaxTurns user turns.
MaxTurns == 2
\* The model keeps the last MaxHistory messages of the history.
MaxHistory == 2
\* The round counter of the coder.go loop is tracked up to MaxCoderCalls.
MaxCoderCalls == 3

\* The longest output of a bash command.
MaxOutputLen == 3

(***************************************************************************)
(* Strings.                                                                *)
(***************************************************************************)
Min(a, b) == IF a < b THEN a ELSE b

\* The byte order of the characters used (ASCII codes).
Ord(c) ==
  CASE c = " " -> 32
    [] c = "." -> 46
    [] c = "/" -> 47
    [] c = "a" -> 97
    [] c = "b" -> 98
    [] c = "w" -> 119
    [] OTHER -> 127

\* s[1..n], the first n characters of s (all of s when it is shorter).
Take(s, n) == SubSeq(s, 1, Min(n, Len(s)))

\* s without its first n characters.
Drop(s, n) == SubSeq(s, n + 1, Len(s))

\* strings.HasPrefix
HasPrefix(s, p) == Len(s) >= Len(p) /\ SubSeq(s, 1, Len(p)) = p

\* Go's string comparison s < t (bytewise lexicographic).
RECURSIVE StrLess(_, _)
StrLess(s, t) ==
  IF t = <<>> THEN FALSE
  ELSE IF s = <<>> THEN TRUE
  ELSE IF Ord(Head(s)) # Ord(Head(t)) THEN Ord(Head(s)) < Ord(Head(t))
  ELSE StrLess(Tail(s), Tail(t))

RECURSIVE TrimLeft(_)
TrimLeft(s) == IF s # <<>> /\ Head(s) = " " THEN TrimLeft(Tail(s)) ELSE s

RECURSIVE TrimRight(_)
TrimRight(s) ==
  IF s # <<>> /\ s[Len(s)] = " " THEN TrimRight(SubSeq(s, 1, Len(s) - 1)) ELSE s

\* strings.TrimSpace
TrimSpace(s) == TrimRight(TrimLeft(s))

\* strings.Index: the first position (from 1) where sub occurs in s at or
\* after position from; 0 when there is none.
RECURSIVE IndexFrom(_, _, _)
IndexFrom(s, sub, from) ==
  IF from + Len(sub) - 1 > Len(s) THEN 0
  ELSE IF SubSeq(s, from, from + Len(sub) - 1) = sub THEN from
  ELSE IndexFrom(s, sub, from + 1)

\* strings.Count for a non-empty sub: the number of non-overlapping
\* occurrences, found left to right (after a match the scan goes on behind it).
RECURSIVE CountFrom(_, _, _)
CountFrom(s, sub, from) ==
  LET Behind(i) == IF i = 0 THEN 0 ELSE 1 + CountFrom(s, sub, i + Len(sub))
  IN Behind(IndexFrom(s, sub, from))

\* strings.Count: for an empty sub Go returns the number of characters + 1.
Count(s, sub) == IF sub = <<>> THEN Len(s) + 1 ELSE CountFrom(s, sub, 1)

\* A replacement that puts new in front of the first occurrence of old and
\* leaves old in place.
ReplaceKeepsOld(s, old, new) ==
  LET At(i) == IF i = 0 THEN s ELSE SubSeq(s, 1, i - 1) \o new \o SubSeq(s, i, Len(s))
  IN At(IndexFrom(s, old, 1))

\* strings.Replace(s, old, new, 1): the first occurrence of old replaced.
ReplaceFirst(s, old, new) ==
  LET At(i) == IF i = 0 THEN s
               ELSE SubSeq(s, 1, i - 1) \o new \o SubSeq(s, i + Len(old), Len(s))
  IN At(IndexFrom(s, old, 1))

\* strings.Split(s, "/"): the elements between the separators.
RECURSIVE SplitAcc(_, _, _)
SplitAcc(s, cur, acc) ==
  IF s = <<>> THEN Append(acc, cur)
  ELSE IF Head(s) = "/" THEN SplitAcc(Tail(s), <<>>, Append(acc, cur))
  ELSE SplitAcc(Tail(s), Append(cur, Head(s)), acc)

Split(s) == SplitAcc(s, <<>>, <<>>)

\* strings.Join(elems, "/")
RECURSIVE JoinSlash(_)
JoinSlash(elems) ==
  IF elems = <<>> THEN <<>>
  ELSE IF Len(elems) = 1 THEN elems[1]
  ELSE elems[1] \o <<"/">> \o JoinSlash(Tail(elems))

(***************************************************************************)
(* path/filepath on a Unix host (Separator = '/').                         *)
(***************************************************************************)
DotDot == <<".", ".">>
Dot == <<".">>

\* filepath.IsAbs
IsAbs(p) == HasPrefix(p, <<"/">>)

\* The element stack of filepath.Clean: empty and "." elements are dropped,
\* ".." removes the last real element, is kept when there is none and the
\* path is not rooted, and is dropped at the root.
RECURSIVE CleanElems(_, _, _)
CleanElems(elems, rooted, out) ==
  LET Step(e, rest) ==
        IF e = <<>> \/ e = Dot THEN CleanElems(rest, rooted, out)
        ELSE IF e = DotDot
          THEN IF out # <<>> /\ out[Len(out)] # DotDot
                 THEN CleanElems(rest, rooted, SubSeq(out, 1, Len(out) - 1))
               ELSE IF ~rooted THEN CleanElems(rest, rooted, Append(out, e))
               ELSE CleanElems(rest, rooted, out)
        ELSE CleanElems(rest, rooted, Append(out, e))
  IN IF elems = <<>> THEN out ELSE Step(Head(elems), Tail(elems))

\* filepath.Clean
Clean(p) ==
  LET Built(rooted, out) ==
        IF rooted THEN <<"/">> \o JoinSlash(out)
        ELSE IF out = <<>> THEN Dot
        ELSE JoinSlash(out)
      Cleaned(rooted) == Built(rooted, CleanElems(Split(p), rooted, <<>>))
  IN IF p = <<>> THEN Dot ELSE Cleaned(IsAbs(p))

\* filepath.Join(a, b): the non-empty arguments joined by "/" and cleaned.
Join(a, b) ==
  IF a = <<>> /\ b = <<>> THEN <<>>
  ELSE IF a = <<>> THEN Clean(b)
  ELSE IF b = <<>> THEN Clean(a)
  ELSE Clean(a \o <<"/">> \o b)

\* filepath.Dir of a cleaned absolute path: the path without its last element.
Dir(p) ==
  LET Parent(elems) == Clean(JoinSlash(SubSeq(elems, 1, Len(elems) - 1)) \o <<"/">>)
  IN Parent(Split(p))

\* The elements of a cleaned path ("." and "/" have none).
Elems(p) ==
  LET Of(c) == IF c = Dot \/ c = <<"/">> THEN <<>>
               ELSE IF IsAbs(c) THEN Tail(Split(c))
               ELSE Split(c)
  IN Of(Clean(p))

\* The length of the common prefix of two element sequences.
RECURSIVE CommonLen(_, _)
CommonLen(a, b) ==
  IF a = <<>> \/ b = <<>> \/ Head(a) # Head(b) THEN 0
  ELSE 1 + CommonLen(Tail(a), Tail(b))

\* filepath.Rel(base, targ) for two paths that are both rooted (the callers
\* pass absolute paths): ".." for every element of base behind the common
\* prefix, then the elements of targ behind it; "." when they are equal.
Rel(base, targ) ==
  LET Joined(out) == IF out = <<>> THEN Dot ELSE JoinSlash(out)
      Behind(b, t, k) ==
        Joined([i \in 1..(Len(b) - k) |-> DotDot] \o SubSeq(t, k + 1, Len(t)))
      Of(b, t) == Behind(b, t, CommonLen(b, t))
  IN Of(Elems(base), Elems(targ))

\* filepath.ToSlash: Separator is '/' here, so nothing is replaced.
ToSlash(p) == p

(***************************************************************************)
(* Message texts.                                                          *)
(***************************************************************************)
\* The text a format string makes (fmt.Sprintf, fmt.Errorf, errors.New):
\* the format string f as written in the source, its arguments that are
\* fixed words (tool names, reasons, error codes) in a, its string argument
\* (a path, a file content) in s and its numbers in n and m.  A text that is
\* one string value has the format "%s".
T2(f, a, s, n, m) == [fmt |-> f, a |-> a, s |-> s, n |-> n, m |-> m]
T(f, a, s, n) == T2(f, a, s, n, 0)

NoText == T("", <<>>, <<>>, 0)

(***************************************************************************)
(* The filesystem: os.Stat, os.MkdirAll, os.WriteFile, os.ReadFile,        *)
(* os.ReadDir and filepath.WalkDir over a tree of directories and files.   *)
(***************************************************************************)
\* The process working directory (os.Getwd), the workspace root.
cwd == <<"/", "w">>

DirNode == [kind |-> "dir", content |-> <<>>]
FileNode(c) == [kind |-> "file", content |-> c]

\* p is base or lies beneath it (both absolute and cleaned).
Beneath(base, p) ==
  LET Of(b, e) == Len(e) >= Len(b) /\ SubSeq(e, 1, Len(b)) = b
  IN Of(Elems(base), Elems(p))

\* The deepest existing path among p and its ancestors ("/" always exists).
RECURSIVE DeepestExisting(_, _)
DeepestExisting(fs, p) ==
  IF p \in DOMAIN fs \/ p = <<"/">> THEN p ELSE DeepestExisting(fs, Dir(p))

\* os.Stat: "ok" with the node, ENOTDIR when an ancestor is a file, ENOENT
\* when nothing exists there.
Stat(fs, p) ==
  IF p \in DOMAIN fs THEN [errno |-> "ok", node |-> fs[p]]
  ELSE IF fs[DeepestExisting(fs, p)].kind = "file"
    THEN [errno |-> "ENOTDIR", node |-> DirNode]
  ELSE [errno |-> "ENOENT", node |-> DirNode]

\* os.IsNotExist
IsNotExist(errno) == errno = "ENOENT"

\* The missing directories os.MkdirAll(d) has to make: d and its ancestors
\* that do not exist.
RECURSIVE MissingDirs(_, _)
MissingDirs(fs, d) ==
  IF d \in DOMAIN fs \/ d = <<"/">> THEN {}
  ELSE {d} \cup MissingDirs(fs, Dir(d))

\* A mkdir of d alone (os.Mkdir), which needs the directory above d.
MkdirOnly(fs, d, fault) ==
  IF fs[DeepestExisting(fs, d)].kind = "file"
    THEN [errno |-> "ENOTDIR", fs |-> fs, made |-> {}]
  ELSE IF d \in DOMAIN fs \/ d = <<"/">> THEN [errno |-> "ok", fs |-> fs, made |-> {}]
  ELSE IF Dir(d) \notin DOMAIN fs THEN [errno |-> "ENOENT", fs |-> fs, made |-> {}]
  ELSE IF fault = "mkdir" THEN [errno |-> "EACCES", fs |-> fs, made |-> {}]
  ELSE [errno |-> "ok",
        fs |-> [q \in DOMAIN fs \cup {d} |-> IF q = d THEN DirNode ELSE fs[q]],
        made |-> {d}]

\* os.MkdirAll(d, 0o755): nothing to do when d is a directory; an error when
\* d or its deepest existing ancestor is a file, or when the mkdir fails
\* (fault "mkdir"); otherwise every missing directory is made.
MkdirAll(fs, d, fault) ==
  LET Make(missing) ==
        IF fs[DeepestExisting(fs, d)].kind = "file"
          THEN [errno |-> "ENOTDIR", fs |-> fs, made |-> {}]
        ELSE IF missing = {} THEN [errno |-> "ok", fs |-> fs, made |-> {}]
        ELSE IF fault = "mkdir" THEN [errno |-> "EACCES", fs |-> fs, made |-> {}]
        ELSE [errno |-> "ok",
              fs |-> [q \in DOMAIN fs \cup missing |->
                        IF q \in missing THEN DirNode ELSE fs[q]],
              made |-> missing]
  IN Make(MissingDirs(fs, d))

\* os.WriteFile(p, data, 0o644): open with O_WRONLY|O_CREATE|O_TRUNC, write,
\* close.  The open fails on a directory, under a missing or non-directory
\* parent, or by fault "open" (nothing changes); a write that fails after
\* the open (fault "write") leaves the file truncated.
WriteFile(fs, p, data, fault) ==
  LET put(c) == [q \in DOMAIN fs \cup {p} |-> IF q = p THEN FileNode(c) ELSE fs[q]]
      Open(parent) ==
        IF p \in DOMAIN fs /\ fs[p].kind = "dir" THEN [errno |-> "EISDIR", fs |-> fs]
        ELSE IF parent.errno # "ok" THEN [errno |-> parent.errno, fs |-> fs]
        ELSE IF parent.node.kind # "dir" THEN [errno |-> "ENOTDIR", fs |-> fs]
        ELSE IF fault = "open" THEN [errno |-> "EACCES", fs |-> fs]
        ELSE IF fault = "write" THEN [errno |-> "ENOSPC", fs |-> put(<<>>)]
        ELSE [errno |-> "ok", fs |-> put(data)]
  IN Open(Stat(fs, Dir(p)))

\* os.ReadFile(p)
ReadFile(fs, p, fault) ==
  LET Read(st) ==
        IF st.errno # "ok" THEN [errno |-> st.errno, data |-> <<>>]
        ELSE IF st.node.kind = "dir" THEN [errno |-> "EISDIR", data |-> <<>>]
        ELSE IF fault = "read" THEN [errno |-> "EIO", data |-> <<>>]
        ELSE [errno |-> "ok", data |-> st.node.content]
  IN Read(Stat(fs, p))

\* The last element of a cleaned absolute path.
Base(p) == LET Last(e) == e[Len(e)] IN Last(Elems(p))

\* The set of strings in ascending order (sort.Strings; also the order by
\* file name in which os.ReadDir and filepath.WalkDir visit a directory).
RECURSIVE SortStrings(_)
SortStrings(S) ==
  IF S = {} THEN <<>>
  ELSE LET First(m) == <<m>> \o SortStrings(S \ {m})
       IN First(CHOOSE x \in S : \A y \in S \ {x} : StrLess(x, y))

\* os.ReadDir(d): the entries of directory d, sorted by file name.
ReadDir(fs, d) ==
  LET Entries(names) == [i \in 1..Len(names) |-> Join(d, names[i])]
  IN Entries(SortStrings({Base(p) : p \in {q \in DOMAIN fs :
                                             q # d /\ q # <<"/">> /\ Dir(q) = d}}))

\* filepath.WalkDir(d, fn) as the sequence of paths fn is called with behind
\* the root: each directory's entries in file-name order, a directory
\* followed at once by its subtree.
RECURSIVE WalkSeq(_, _)
RECURSIVE WalkDir(_, _)
WalkSeq(fs, entries) ==
  IF entries = <<>> THEN <<>>
  ELSE LET Visit(p) == <<p>> \o (IF fs[p].kind = "dir" THEN WalkDir(fs, p) ELSE <<>>)
       IN Visit(Head(entries)) \o WalkSeq(fs, Tail(entries))
WalkDir(fs, d) == WalkSeq(fs, ReadDir(fs, d))

(***************************************************************************)
(* Raw tool input (json.RawMessage) and its decoding.                      *)
(*                                                                         *)
(* A raw input is [ws, k, f]: ws says that white space surrounds the JSON  *)
(* text, k is the kind of the text ("empty": no text, "bad": not JSON,     *)
(* "array": JSON that is no object, "null", "obj": an object) and f the    *)
(* object's fields, a function from field names to JSON values.            *)
(***************************************************************************)
JStr(x) == [t |-> "str", s |-> x, n |-> 0, b |-> FALSE]
JInt(x) == [t |-> "int", s |-> <<>>, n |-> x, b |-> FALSE]
JBool(x) == [t |-> "bool", s |-> <<>>, n |-> 0, b |-> x]
JNull == [t |-> "null", s |-> <<>>, n |-> 0, b |-> FALSE]

\* An integer literal that a Go int does not hold (9223372036854775808).
JBigInt == [t |-> "bigint", s |-> <<>>, n |-> 0, b |-> FALSE]

NoFields == [x \in {} |-> JNull]

Raw(ws, k, f) == [ws |-> ws, k |-> k, f |-> f]

\* The raw input "{}".
EmptyObject == Raw(FALSE, "obj", NoFields)

\* strings.TrimSpace(string(input)): the surrounding white space goes.
TrimRaw(raw) == [raw EXCEPT !.ws = FALSE]

\* raw = "" after trimming; the tools and parseContent then use "{}".
IsBlankRaw(raw) == TrimRaw(raw).k = "empty"

OrEmptyObject(raw) == IF IsBlankRaw(raw) THEN EmptyObject ELSE TrimRaw(raw)

\* A *string or *bool struct field: nil, or a pointer to the value.
Nil == [nil |-> TRUE, s |-> <<>>, b |-> FALSE]
PtrStr(x) == [nil |-> FALSE, s |-> x, b |-> FALSE]
PtrBool(x) == [nil |-> FALSE, s |-> <<>>, b |-> x]

\* The error of json.Unmarshal of the text into a struct whose fields named
\* in strs are strings, in ints integers and in bools booleans: "" when it
\* succeeds.  Text that is not JSON and JSON of another kind than an object
\* or null are errors, and so is a known field of the wrong type; null
\* leaves a field as it is and unknown fields are skipped.
UnmarshalError(raw, strs, ints, bools) ==
  LET wrong(names, t) ==
        \E x \in names \cap DOMAIN raw.f : raw.f[x].t \notin {t, "null"}
  IN IF raw.k = "bad" THEN "invalid character"
     ELSE IF raw.k = "array" THEN "json: cannot unmarshal array into Go value"
     ELSE IF raw.k = "obj"
               /\ (wrong(strs, "str") \/ wrong(ints, "int") \/ wrong(bools, "bool"))
       THEN "json: cannot unmarshal field into Go struct field"
     ELSE ""

\* The decoded struct fields.
StrField(raw, x) ==
  IF raw.k = "obj" /\ x \in DOMAIN raw.f /\ raw.f[x].t = "str"
    THEN PtrStr(raw.f[x].s) ELSE Nil

BoolField(raw, x) ==
  IF raw.k = "obj" /\ x \in DOMAIN raw.f /\ raw.f[x].t = "bool"
    THEN PtrBool(raw.f[x].b) ELSE Nil

IntField(raw, x) ==
  IF raw.k = "obj" /\ x \in DOMAIN raw.f /\ raw.f[x].t = "int"
    THEN raw.f[x].n ELSE 0

(***************************************************************************)
(* Validation errors.                                                      *)
(***************************************************************************)
\* The reason of a validation error: the format string f it is made with
\* (fmt.Sprintf) or the fixed sentence, the fixed word w and the string s
\* that the format takes.
Reason(f, w, s) == [fmt |-> f, w |-> w, s |-> s]

\* toolInputValidationError(toolName, reason, expected)
toolInputValidationError(toolName, reason, expected) ==
  IF expected = ""
    THEN T("invalid %s input: %s", <<toolName, reason.fmt, reason.w>>, reason.s, 0)
  ELSE T("invalid %s input: %s. expected input like %s",
         <<toolName, reason.fmt, reason.w, expected>>, reason.s, 0)

\* The format strings of the program that begin with "invalid ".
InvalidFormats ==
  {"invalid %s input: %s",
   "invalid %s input: %s. expected input like %s",
   "invalid list_files input: %w"}

InvalidWord == <<"i", "n", "v", "a", "l", "i", "d", " ">>

\* A test that takes every error text for a validation error.
EveryTextIsValidationError(resultText) == TRUE

\* isToolInputValidationError: the trimmed, lower-cased text begins with
\* "invalid ".  (The characters of the model have no upper case.)
isToolInputValidationError(resultText) ==
  IF resultText.fmt = "%s" THEN HasPrefix(TrimSpace(resultText.s), InvalidWord)
  ELSE resultText.fmt \in InvalidFormats

\* A check that takes a missing field for the empty string.
requireToolStringLenient(toolName, fieldName, value, allowEmpty, expected) ==
  [err |-> FALSE, value |-> value.s, text |-> NoText]

\* requireToolString: [err, value, text]
requireToolString(toolName, fieldName, value, allowEmpty, expected) ==
  IF value.nil
    THEN [err |-> TRUE, value |-> <<>>,
          text |-> toolInputValidationError(
                     toolName, Reason("missing required field %q", fieldName, <<>>),
                     expected)]
  ELSE IF ~allowEmpty /\ TrimSpace(value.s) = <<>>
    THEN [err |-> TRUE, value |-> <<>>,
          text |-> toolInputValidationError(
                     toolName, Reason("field %q cannot be empty", fieldName, <<>>),
                     expected)]
  ELSE [err |-> FALSE, value |-> value.s, text |-> NoText]

(***************************************************************************)
(* The path resolvers.  Each returns [err, text, abs, display, log]: log    *)
(* is the set of filesystem accesses made, [op, path].                     *)
(***************************************************************************)
Access(op, p) == [op |-> op, path |-> p]

ResolveError(text, log) ==
  [err |-> TRUE, text |-> text, abs |-> <<>>, display |-> <<>>, log |-> log]

Resolved(abs, display, log) ==
  [err |-> FALSE, text |-> NoText, abs |-> abs, display |-> display, log |-> log]

PathEscapesWorkspace == T("path escapes the current workspace", <<>>, <<>>, 0)
PathMustBeRelative == T("path must be relative to the current workspace", <<>>, <<>>, 0)
PathRequired == T("path is required", <<>>, <<>>, 0)
PathMustPointToFile == T("path must point to a file", <<>>, <<>>, 0)

\* Escape checks that miss "../x", and that miss every path.
EscapesOnlyDotDot(p) == p = DotDot
EscapesNever(p) == FALSE

\* p == ".." || strings.HasPrefix(p, ".."+string(filepath.Separator))
Escapes(p) == p = DotDot \/ HasPrefix(p, DotDot \o <<"/">>)

\* filepath.Abs of a path that is absolute already: the cleaned path.
Abs(p) == Clean(p)

resolveWorkspaceFileForWrite(fs, pathArg0) ==
  LET Inside(abs, rel) ==
        IF Escapes(rel) THEN ResolveError(PathEscapesWorkspace, {})
        ELSE Resolved(abs, ToSlash(rel), {})
      Joined(abs) == Inside(abs, Rel(cwd, abs))
      Cleaned(clean) ==
        IF clean = Dot THEN ResolveError(PathMustPointToFile, {})
        ELSE IF Escapes(clean) THEN ResolveError(PathEscapesWorkspace, {})
        ELSE Joined(Abs(Join(cwd, clean)))
      Trimmed(pathArg) ==
        IF pathArg = <<>> THEN ResolveError(PathRequired, {})
        ELSE IF IsAbs(pathArg) THEN ResolveError(PathMustBeRelative, {})
        ELSE Cleaned(Clean(pathArg))
  IN Trimmed(TrimSpace(pathArg0))

resolveWorkspaceFile(fs, pathArg0) ==
  LET Statted(clean, abs, rel, info) ==
        IF info.errno # "ok"
          THEN ResolveError(T("failed to access path %q: %w", <<info.errno>>, clean, 0),
                            {Access("stat", abs)})
        ELSE IF info.node.kind = "dir"
          THEN ResolveError(T("path is a directory: %s", <<>>, ToSlash(rel), 0),
                            {Access("stat", abs)})
        ELSE Resolved(abs, ToSlash(rel), {Access("stat", abs)})
      Inside(clean, abs, rel) ==
        IF Escapes(rel) THEN ResolveError(PathEscapesWorkspace, {})
        ELSE Statted(clean, abs, rel, Stat(fs, abs))
      Joined(clean, abs) == Inside(clean, abs, Rel(cwd, abs))
      Cleaned(clean) ==
        IF clean = Dot THEN ResolveError(PathMustPointToFile, {})
        ELSE IF Escapes(clean) THEN ResolveError(PathEscapesWorkspace, {})
        ELSE Joined(clean, Abs(Join(cwd, clean)))
      Trimmed(pathArg) ==
        IF pathArg = <<>> THEN ResolveError(PathRequired, {})
        ELSE IF IsAbs(pathArg) THEN ResolveError(PathMustBeRelative, {})
        ELSE Cleaned(Clean(pathArg))
  IN Trimmed(TrimSpace(pathArg0))

resolveWorkspaceDir(fs, pathArg0) ==
  LET Shown(rel) == IF rel = <<>> \/ rel = Dot THEN Dot ELSE rel
      Statted(clean, abs, rel, info) ==
        IF info.errno # "ok"
          THEN ResolveError(T("failed to access path %q: %w", <<info.errno>>, clean, 0),
                            {Access("stat", abs)})
        ELSE IF info.node.kind # "dir"
          THEN ResolveError(T("path is not a directory: %s", <<>>, ToSlash(rel), 0),
                            {Access("stat", abs)})
        ELSE Resolved(abs, Shown(ToSlash(rel)), {Access("stat", abs)})
      Inside(clean, abs, rel) ==
        IF Escapes(rel) THEN ResolveError(PathEscapesWorkspace, {})
        ELSE Statted(clean, abs, rel, Stat(fs, abs))
      Joined(clean, abs) == Inside(clean, abs, Rel(cwd, abs))
      Cleaned(clean) ==
        IF Escapes(clean) THEN ResolveError(PathEscapesWorkspace, {})
        ELSE Joined(clean, Abs(Join(cwd, clean)))
      Given(pathArg) ==
        IF IsAbs(pathArg) THEN ResolveError(PathMustBeRelative, {})
        ELSE Cleaned(Clean(pathArg))
      Trimmed(trimmed) == Given(IF trimmed = <<>> THEN Dot ELSE trimmed)
  IN Trimmed(TrimSpace(pathArg0))

(***************************************************************************)
(* The tools.  A tool function takes the filesystem, the raw input and the *)
(* I/O failure that the call meets (FaultKinds) and returns                *)
(* [text, isErr, fs, log, out]: the result or error text, whether it is an *)
(* error, the filesystem afterwards, the accesses made and the lines       *)
(* printed to stdout.                                                      *)
(***************************************************************************)
\* "none", or the system call that fails in this tool call: the mkdir of
\* os.MkdirAll, the open or the write of os.WriteFile, the read of os.ReadFile.
FaultKinds == {"none", "mkdir", "open", "write", "read"}

ToolErr(text, fs, log) ==
  [text |-> text, isErr |-> TRUE, fs |-> fs, log |-> log, out |-> <<>>,
   elapsed |-> 0, alive |-> {}]

ToolOk(text, fs, log, out) ==
  [text |-> text, isErr |-> FALSE, fs |-> fs, log |-> log, out |-> out,
   elapsed |-> 0, alive |-> {}]

WriteFileExpected == "{\"path\":\"src/main.py\",\"content\":\"print(\\\"hello\\\")\",\"overwrite\":true}"
EditFilesExpected == "{\"path\":\"src/main.py\",\"old_str\":\"before\",\"new_str\":\"after\"}"
ReadFilesExpected == "{\"path\":\"main.py\",\"max_bytes\":32000}"

\* contentSource with text and content taken in the other order.
ContentSourceTextFirst(args) ==
  IF ~args.Text.nil THEN args.Text
  ELSE IF ~args.Content.nil THEN args.Content
  ELSE IF ~args.Body.nil THEN args.Body
  ELSE args.NewStr

\* The first of content, text, body, new_str that is not nil (nil if none).
ContentSource(args) ==
  IF ~args.Content.nil THEN args.Content
  ELSE IF ~args.Text.nil THEN args.Text
  ELSE IF ~args.Body.nil THEN args.Body
  ELSE args.NewStr

\* The steps of writeFile behind the resolved path: stat, the overwrite
\* check, MkdirAll of the parent, WriteFile.
\* An overwrite check that lets every write through.
OverwriteAlwaysAllowed(exists, overwrite) == FALSE

\* exists && !overwrite
OverwriteRefused(exists, overwrite) == exists /\ ~overwrite

\* A write that opens the file before it looks at overwrite.
WriteResolvedCheckedLate(fs, r, content, overwrite, fault) ==
  LET Written(exists, wr) ==
        IF OverwriteRefused(exists, overwrite)
          THEN ToolErr(toolInputValidationError(
                         "write_file",
                         Reason("file already exists: %s (set overwrite=true to replace it)",
                                "", r.display),
                         WriteFileExpected), wr.fs, {Access("write", r.abs)})
        ELSE IF wr.errno # "ok"
          THEN ToolErr(T("failed to write file %q: %w", <<wr.errno>>, r.display, 0),
                       wr.fs, {Access("write", r.abs)})
        ELSE ToolOk(T("wrote file %s", <<>>, r.display, 0), wr.fs,
                    {Access("write", r.abs)}, <<>>)
  IN Written(r.abs \in DOMAIN fs, WriteFile(fs, r.abs, content, fault))

WriteResolved(fs, r, content, overwrite, fault) ==
  LET log0 == r.log \cup {Access("stat", r.abs)}
      Log1(md) == log0 \cup {Access("stat", Dir(r.abs))}
                       \cup {Access("mkdir", d) : d \in md.made}
      Log2(md) == Log1(md) \cup {Access("write", r.abs)}
      Written(info, md, wr) ==
        IF wr.errno # "ok"
          THEN ToolErr(T("failed to write file %q: %w", <<wr.errno>>, r.display, 0),
                       wr.fs, Log2(md))
        ELSE ToolOk(T("wrote file %s", <<>>, r.display, 0), wr.fs, Log2(md),
                    <<T(IF info.errno = "ok" THEN "Overwrote %s (%d bytes)\n"
                        ELSE "Created %s (%d bytes)\n", <<>>, r.display, Len(content))>>)
      Made(info, md) ==
        IF md.errno # "ok"
          THEN ToolErr(T("failed to create parent directory for %q: %w",
                         <<md.errno>>, r.display, 0), md.fs, Log1(md))
        ELSE Written(info, md, WriteFile(md.fs, r.abs, content, fault))
      Statted(info) ==
        IF info.errno = "ok" /\ info.node.kind = "dir"
          THEN ToolErr(T("path is a directory: %s", <<>>, r.display, 0), fs, log0)
        ELSE IF info.errno # "ok" /\ ~IsNotExist(info.errno)
          THEN ToolErr(T("failed to access path %q: %w", <<info.errno>>, r.display, 0),
                       fs, log0)
        ELSE IF OverwriteRefused(info.errno = "ok", overwrite)
          THEN ToolErr(toolInputValidationError(
                         "write_file",
                         Reason("file already exists: %s (set overwrite=true to replace it)",
                                "", r.display),
                         WriteFileExpected), fs, log0)
        ELSE Made(info, MkdirAll(fs, Dir(r.abs), fault))
  IN Statted(Stat(fs, r.abs))

writeFile(fs, input, fault) ==
  LET Resolve(content, overwrite, r) ==
        IF r.err THEN ToolErr(r.text, fs, r.log)
        ELSE WriteResolved(fs, r, content, overwrite, fault)
      WithContent(args, pathValue, content) ==
        IF content.err THEN ToolErr(content.text, fs, {})
        ELSE Resolve(content.value,
                     IF args.Overwrite.nil THEN FALSE ELSE args.Overwrite.b,
                     resolveWorkspaceFileForWrite(fs, pathValue))
      WithSource(args, pathValue, contentSource) ==
        IF contentSource.nil
          THEN ToolErr(toolInputValidationError(
                         "write_file",
                         Reason("missing required field \"content\" (accepted aliases: \"text\", \"body\", \"new_str\"); include the full file contents",
                                "", <<>>),
                         WriteFileExpected), fs, {})
        ELSE WithContent(args, pathValue,
                         requireToolString("write_file", "content", contentSource, TRUE,
                                           WriteFileExpected))
      WithPath(args, path) ==
        IF path.err THEN ToolErr(path.text, fs, {})
        ELSE WithSource(args, TrimSpace(path.value), ContentSource(args))
      Decoded(args) ==
        WithPath(args, requireToolString("write_file", "path", args.Path, FALSE,
                                         WriteFileExpected))
      Unmarshalled(raw, jsonErr) ==
        IF jsonErr # ""
          THEN ToolErr(toolInputValidationError("write_file", Reason(jsonErr, "", <<>>),
                                                WriteFileExpected), fs, {})
        ELSE Decoded([Path |-> StrField(raw, "path"), Content |-> StrField(raw, "content"),
                      Text |-> StrField(raw, "text"), Body |-> StrField(raw, "body"),
                      NewStr |-> StrField(raw, "new_str"),
                      Overwrite |-> BoolField(raw, "overwrite")])
      Trimmed(raw) ==
        Unmarshalled(raw, UnmarshalError(raw, {"path", "content", "text", "body", "new_str"},
                                         {}, {"overwrite"}))
  IN Trimmed(OrEmptyObject(input))

(***************************************************************************)
(* edit_file, edit_files                                                   *)
(***************************************************************************)
\* A switch that puts new_str in the place of the content when old_str is
\* empty.
EditSwitchReplacesAll(content, oldStr, newStr) ==
  IF oldStr = <<>> THEN [kind |-> "ok", newContent |-> newStr]
  ELSE IF Count(content, oldStr) = 0 THEN [kind |-> "notfound", newContent |-> content]
  ELSE IF Count(content, oldStr) > 1 THEN [kind |-> "multiple", newContent |-> content]
  ELSE [kind |-> "ok", newContent |-> ReplaceFirst(content, oldStr, newStr)]

\* The switch of editFiles on old_str and the content read: the new content,
\* or the error "notfound" or "multiple".
EditSwitch(content, oldStr, newStr) ==
  IF oldStr = <<>> THEN [kind |-> "ok", newContent |-> content \o newStr]
  ELSE IF Count(content, oldStr) = 0 THEN [kind |-> "notfound", newContent |-> content]
  ELSE IF Count(content, oldStr) > 1 THEN [kind |-> "multiple", newContent |-> content]
  ELSE [kind |-> "ok", newContent |-> ReplaceFirst(content, oldStr, newStr)]

\* A comparison that lets two empty strings through.
SameStringsUnlessEmpty(oldStr, newStr) == oldStr = newStr /\ oldStr # <<>>

\* oldStr == newStr
SameStrings(oldStr, newStr) == oldStr = newStr

\* The steps of editFiles behind the resolved path.
EditResolved(fs, r, oldStr, newStr, fault) ==
  LET log0 == r.log \cup {Access("stat", r.abs)}
      Log1(md) == log0 \cup {Access("stat", Dir(r.abs))}
                       \cup {Access("mkdir", d) : d \in md.made}
      Log2(md) == Log1(md) \cup {Access("write", r.abs)}
      log3 == log0 \cup {Access("read", r.abs)}
      log4 == log3 \cup {Access("write", r.abs)}
      \* the file does not exist: create it
      Created(md, cr) ==
        IF cr.errno # "ok"
          THEN ToolErr(T("failed to create file %q: %w", <<cr.errno>>, r.display, 0),
                       cr.fs, Log2(md))
        ELSE ToolOk(T("created file %s", <<>>, r.display, 0), cr.fs, Log2(md),
                    <<T("Created %s (%d bytes)\n", <<>>, r.display, Len(newStr))>>)
      Made(md) ==
        IF md.errno # "ok"
          THEN ToolErr(T("failed to create parent directory for %q: %w",
                         <<md.errno>>, r.display, 0), md.fs, Log1(md))
        ELSE Created(md, WriteFile(md.fs, r.abs, newStr, fault))
      \* the file exists: read, edit, write
      Written(wr) ==
        IF wr.errno # "ok"
          THEN ToolErr(T("failed to write file %q: %w", <<wr.errno>>, r.display, 0),
                       wr.fs, log4)
        ELSE ToolOk(T("edited file %s", <<>>, r.display, 0), wr.fs, log4,
                    <<T("Edited %s\n", <<>>, r.display, 0)>>)
      Switched(sw) ==
        IF sw.kind = "notfound"
          THEN ToolErr(T("old_str not found in file: %s", <<>>, r.display, 0), fs, log3)
        ELSE IF sw.kind = "multiple"
          THEN ToolErr(T("old_str appears multiple times in file: %s; provide more specific text",
                         <<>>, r.display, 0), fs, log3)
        ELSE Written(WriteFile(fs, r.abs, sw.newContent, fault))
      WasRead(rd) ==
        IF rd.errno # "ok"
          THEN ToolErr(T("failed to read file %q: %w", <<rd.errno>>, r.display, 0), fs, log3)
        ELSE Switched(EditSwitch(rd.data, oldStr, newStr))
      Statted(info) ==
        IF info.errno # "ok" /\ ~IsNotExist(info.errno)
          THEN ToolErr(T("failed to access path %q: %w", <<info.errno>>, r.display, 0),
                       fs, log0)
        ELSE IF info.errno # "ok" /\ oldStr # <<>>
          THEN ToolErr(T("file does not exist: %s (old_str must be empty to create it; otherwise use write_file)",
                         <<>>, r.display, 0), fs, log0)
        ELSE IF info.errno # "ok" THEN Made(MkdirAll(fs, Dir(r.abs), fault))
        ELSE IF info.node.kind = "dir"
          THEN ToolErr(T("path is a directory: %s", <<>>, r.display, 0), fs, log0)
        ELSE WasRead(ReadFile(fs, r.abs, fault))
  IN Statted(Stat(fs, r.abs))

editFiles(fs, input, fault) ==
  LET Resolve(oldStr, newStr, r) ==
        IF r.err THEN ToolErr(r.text, fs, r.log)
        ELSE EditResolved(fs, r, oldStr, newStr, fault)
      WithNew(pathValue, oldStr, newStr) ==
        IF newStr.err THEN ToolErr(newStr.text, fs, {})
        ELSE IF SameStrings(oldStr, newStr.value)
          THEN ToolErr(toolInputValidationError(
                         "edit_files",
                         Reason("\"old_str\" and \"new_str\" must be different", "", <<>>),
                         EditFilesExpected), fs, {})
        ELSE Resolve(oldStr, newStr.value, resolveWorkspaceFileForWrite(fs, pathValue))
      WithOld(args, pathValue, oldStr) ==
        IF oldStr.err THEN ToolErr(oldStr.text, fs, {})
        ELSE WithNew(pathValue, oldStr.value,
                     requireToolString("edit_files", "new_str", args.NewStr, TRUE,
                                       EditFilesExpected))
      WithPath(args, path) ==
        IF path.err THEN ToolErr(path.text, fs, {})
        ELSE WithOld(args, TrimSpace(path.value),
                     requireToolString("edit_files", "old_str", args.OldStr, TRUE,
                                       EditFilesExpected))
      Decoded(args) ==
        WithPath(args, requireToolString("edit_files", "path", args.Path, FALSE,
                                         EditFilesExpected))
      Unmarshalled(raw, jsonErr) ==
        IF jsonErr # ""
          THEN ToolErr(toolInputValidationError("edit_files", Reason(jsonErr, "", <<>>),
                                                EditFilesExpected), fs, {})
        ELSE Decoded([Path |-> StrField(raw, "path"), OldStr |-> StrField(raw, "old_str"),
                      NewStr |-> StrField(raw, "new_str")])
      Trimmed(raw) ==
        Unmarshalled(raw, UnmarshalError(raw, {"path", "old_str", "new_str"}, {}, {}))
  IN Trimmed(OrEmptyObject(input))

(***************************************************************************)
(* read_file, read_files                                                   *)
(***************************************************************************)
\* The effective limit: the default when the given value is absent or <= 0,
\* at most the hard cap.
EffectiveLimit(given, default, hard) ==
  LET Capped(v) == IF v > hard THEN hard ELSE v
  IN Capped(IF given > 0 THEN given ELSE default)

\* A truncation that already cuts content of exactly maxBytes bytes, one
\* byte short.
TruncateOneShort(content, maxBytes) ==
  IF Len(content) >= maxBytes
    THEN [content |-> SubSeq(content, 1, maxBytes - 1), truncated |-> TRUE]
  ELSE [content |-> content, truncated |-> FALSE]

\* A truncation that cuts the content and does not say so.
TruncateUnreported(content, maxBytes) ==
  IF Len(content) > maxBytes
    THEN [content |-> SubSeq(content, 1, maxBytes), truncated |-> FALSE]
  ELSE [content |-> content, truncated |-> FALSE]

\* if len(content) > maxBytes { content = content[:maxBytes]; truncated = true }
TruncateBytes(content, maxBytes) ==
  IF Len(content) > maxBytes
    THEN [content |-> SubSeq(content, 1, maxBytes), truncated |-> TRUE]
  ELSE [content |-> content, truncated |-> FALSE]

readFiles(fs, input, fault) ==
  LET Log1(r) == r.log \cup {Access("read", r.abs)}
      Truncated(r, tr) ==
        ToolOk(T("%s", <<>>, tr.content, 0), fs, Log1(r),
               <<T(IF tr.truncated THEN "Read %s (%d bytes, truncated at max_bytes=%d)\n"
                   ELSE "Read %s (%d bytes)\n", <<>>, r.display, Len(tr.content))>>)
      WasRead(maxBytes, r, rd) ==
        IF rd.errno # "ok"
          THEN ToolErr(T("failed to read file %q: %w", <<rd.errno>>, r.display, 0),
                       fs, Log1(r))
        ELSE Truncated(r, TruncateBytes(rd.data, maxBytes))
      Resolve(maxBytes, r) ==
        IF r.err THEN ToolErr(r.text, fs, r.log)
        ELSE WasRead(maxBytes, r, ReadFile(fs, r.abs, fault))
      WithPath(args, path) ==
        IF path.err THEN ToolErr(path.text, fs, {})
        ELSE Resolve(EffectiveLimit(args.MaxBytes, defaultReadFilesMaxBytes,
                                    hardReadFilesMaxBytes),
                     resolveWorkspaceFile(fs, TrimSpace(path.value)))
      Decoded(args) ==
        WithPath(args, requireToolString("read_files", "path", args.Path, FALSE,
                                         ReadFilesExpected))
      Unmarshalled(raw, jsonErr) ==
        IF jsonErr # ""
          THEN ToolErr(toolInputValidationError("read_files", Reason(jsonErr, "", <<>>),
                                                ReadFilesExpected), fs, {})
        ELSE Decoded([Path |-> StrField(raw, "path"),
                      MaxBytes |-> IntField(raw, "max_bytes")])
      Trimmed(raw) == Unmarshalled(raw, UnmarshalError(raw, {"path"}, {"max_bytes"}, {}))
  IN Trimmed(OrEmptyObject(input))

(***************************************************************************)
(* list_files                                                              *)
(***************************************************************************)
\* json.Marshal of a slice of strings: ["e1","e2"] (the characters of the
\* model need no escaping).
RECURSIVE MarshalElems(_)
MarshalElems(entries) ==
  IF entries = <<>> THEN <<>>
  ELSE <<"\"">> \o Head(entries) \o <<"\"">>
       \o (IF Len(entries) > 1 THEN <<",">> ELSE <<>>) \o MarshalElems(Tail(entries))

MarshalStrings(entries) == <<"[">> \o MarshalElems(entries) \o <<"]">>

\* The entry of path p in a listing of dir: the slash path relative to dir,
\* with "/" behind a directory.
EntryName(fs, dir, p) ==
  ToSlash(Rel(dir, p)) \o (IF fs[p].kind = "dir" THEN <<"/">> ELSE <<>>)

\* collectFileEntries: the walk (recursive) or the directory's entries, cut
\* when maxEntries entries are collected, then sorted.
collectFileEntries(fs, dir, recursive, maxEntries0) ==
  LET \* the directories read: dir, and in a walk every directory visited
      \* before the limit was reached
      DirsRead(taken, maxEntries) ==
        {dir} \cup
        (IF recursive
           THEN {taken[i] : i \in {j \in 1..Len(taken) :
                                     /\ fs[taken[j]].kind = "dir"
                                     /\ j < maxEntries}}
         ELSE {})
      Taken(taken, maxEntries) ==
        [entries |-> SortStrings({EntryName(fs, dir, taken[i]) : i \in 1..Len(taken)}),
         truncated |-> Len(taken) >= maxEntries,
         log |-> {Access("readdir", d) : d \in DirsRead(taken, maxEntries)}]
      Visited(visit, maxEntries) == Taken(Take(visit, maxEntries), maxEntries)
      Limited(maxEntries) ==
        Visited(IF recursive THEN WalkDir(fs, dir) ELSE ReadDir(fs, dir), maxEntries)
  IN Limited(IF maxEntries0 < 1 THEN defaultListFilesMaxEntries ELSE maxEntries0)

listFiles(fs, input, fault) ==
  LET Collected(r, c) ==
        ToolOk(T("%s", <<>>, MarshalStrings(c.entries), 0), fs, r.log \cup c.log,
               <<T(IF c.truncated
                     THEN "Searched %s\nListed %d files (truncated at max_entries=%d)\n"
                   ELSE "Searched %s\nListed %d files\n",
                   <<>>, r.display, Len(c.entries))>>)
      Resolve(recursive, maxEntries, r) ==
        IF r.err THEN ToolErr(r.text, fs, r.log)
        ELSE Collected(r, collectFileEntries(fs, r.abs, recursive, maxEntries))
      Decoded(args) ==
        Resolve(IF args.Recursive.nil THEN TRUE ELSE args.Recursive.b,
                EffectiveLimit(args.MaxEntries, defaultListFilesMaxEntries,
                               hardListFilesMaxEntries),
                resolveWorkspaceDir(fs, args.Path))
      WithFields(raw, pathField) ==
        Decoded([Path |-> IF pathField.nil THEN <<>> ELSE pathField.s,
                 Recursive |-> BoolField(raw, "recursive"),
                 MaxEntries |-> IntField(raw, "max_entries")])
      Unmarshalled(raw, jsonErr) ==
        IF jsonErr # ""
          THEN ToolErr(T("invalid list_files input: %w", <<jsonErr>>, <<>>, 0), fs, {})
        ELSE WithFields(raw, StrField(raw, "path"))
      Trimmed(raw) ==
        Unmarshalled(raw, UnmarshalError(raw, {"path"}, {"max_entries"}, {"recursive"}))
  IN Trimmed(OrEmptyObject(input))

(***************************************************************************)
(* bash.  What the command does when it is run is an input of the call     *)
(* (proc); the result of the call says, besides its text, how many seconds *)
(* the call took (elapsed) and which processes of the command are running  *)
(* when it returns (alive); its log has the access "exec" when a process   *)
(* was started.  The commands of the model leave the files alone.          *)
(***************************************************************************)
BashExpected == "{\"command\":\"python3 app.py\",\"timeout_seconds\":30}"

\* What a command does when it is run.  kind is "startfail" when bash cannot
\* be started and "exit" otherwise; then the shell exits by itself with code
\* after shell seconds, output is what the command writes to the output
\* pipe, a process that the shell started and that holds the output pipe
\* runs for holder seconds and one whose output is redirected for detached
\* seconds (0: there is no such process).  A process is running at the time
\* t when t is at most its seconds.
Proc(kind, code, output, shell, holder, detached) ==
  [kind |-> kind, code |-> code, output |-> output, shell |-> shell,
   holder |-> holder, detached |-> detached]

NoProc == Proc("exit", 0, <<>>, 0, 0, 0)

\* exec.CommandContext(ctx, "bash", "-lc", command) and cmd.CombinedOutput()
\* under the deadline of timeoutSeconds.  When the deadline passes while the
\* shell is running, the shell process is killed, and no other process is.
\* CombinedOutput returns when the shell has ended and the output pipe is
\* closed, which is when no process holds it any more.  deadline is
\* ctx.Err() == context.DeadlineExceeded behind the return, alive are the
\* processes of the command that are running then.
CombinedOutput(proc, timeoutSeconds) ==
  LET Returned(elapsed) ==
        [started |-> TRUE, code |-> proc.code, output |-> proc.output,
         elapsed |-> elapsed, deadline |-> elapsed >= timeoutSeconds,
         alive |-> IF proc.detached > elapsed THEN {"detached"} ELSE {}]
      Waited(shellEnd) == Returned(IF proc.holder > shellEnd THEN proc.holder ELSE shellEnd)
  IN IF proc.kind = "startfail"
       THEN [started |-> FALSE, code |-> 0, output |-> <<>>, elapsed |-> 0,
             deadline |-> FALSE, alive |-> {}]
     ELSE Waited(IF proc.shell >= timeoutSeconds THEN timeoutSeconds ELSE proc.shell)

\* truncateOutput
truncateOutput(output, maxBytes0) ==
  LET Cut(maxBytes) ==
        IF Len(output) <= maxBytes THEN [text |-> output, truncated |-> FALSE]
        ELSE [text |-> SubSeq(output, 1, maxBytes), truncated |-> TRUE]
  IN Cut(IF maxBytes0 < 1 THEN defaultBashMaxOutputBytes ELSE maxBytes0)

\* The command of a bash call: command, or cmd when command is blank.
BashCommand(args) ==
  LET OrCmd(c1) ==
        TrimSpace(IF TrimSpace(c1) = <<>> /\ ~args.Cmd.nil THEN args.Cmd.s ELSE c1)
  IN OrCmd(IF args.Command.nil THEN <<>> ELSE args.Command.s)

\* The result texts of bash are the status sentence f with its number n,
\* then, when there is output, the heading h and the trimmed output, then,
\* when the output was cut, the truncation notice with maxOutputBytes.
BashText(f, n, h, trimmedOutput, wasTruncated, maxOutputBytes) ==
  T2(f,
     (IF trimmedOutput # <<>> THEN <<h>> ELSE <<>>)
       \o (IF wasTruncated
             THEN <<"\n\n(output truncated at max_output_bytes=%d)">> ELSE <<>>),
     trimmedOutput, n, IF wasTruncated THEN maxOutputBytes ELSE 0)

\* A non-zero exit that is made an error result.
BashExitedAsError(fs, code, trimmedOutput, wasTruncated, maxOutputBytes) ==
  ToolErr(BashText("Command exited with code %d.", code, "\n\nOutput:\n%s",
                   trimmedOutput, wasTruncated, maxOutputBytes), fs, {})

\* errors.As(runErr, &exitErr): the command ran and exited with code.
BashExited(fs, code, trimmedOutput, wasTruncated, maxOutputBytes) ==
  ToolOk(BashText("Command exited with code %d.", code, "\n\nOutput:\n%s",
                  trimmedOutput, wasTruncated, maxOutputBytes), fs, {}, <<>>)

\* A success that returns the trimmed output also when it is empty.
BashSucceededWithoutSentinel(fs, trimmedOutput, wasTruncated, maxOutputBytes) ==
  ToolOk(BashText("%s", 0, "", trimmedOutput, wasTruncated, maxOutputBytes),
         fs, {}, <<>>)

\* runErr == nil: the sentence for no output, or the trimmed output with
\* the truncation notice behind it when the output was cut.
BashSucceeded(fs, trimmedOutput, wasTruncated, maxOutputBytes) ==
  IF trimmedOutput = <<>>
    THEN ToolOk(T("Command completed successfully with no output.", <<>>, <<>>, 0),
                fs, {}, <<>>)
  ELSE ToolOk(BashText("%s", 0, "", trimmedOutput, wasTruncated, maxOutputBytes),
              fs, {}, <<>>)

\* The result of bash behind cmd.CombinedOutput(), which returned run.
BashOutcome(fs, run, timeoutSeconds, maxOutputBytes, wasTruncated, trimmedOutput) ==
  LET Left(res) ==
        [res EXCEPT !.elapsed = run.elapsed, !.alive = run.alive,
                    !.log = IF run.started THEN {Access("exec", cwd)} ELSE {}]
  IN Left(IF run.deadline
            THEN ToolOk(BashText("Command timed out after %d seconds.", timeoutSeconds,
                                 "\n\nPartial output:\n%s", trimmedOutput, wasTruncated,
                                 maxOutputBytes), fs, {}, <<>>)
          ELSE IF ~run.started
            THEN ToolErr(T("failed to execute command: %w", <<"exec">>, <<>>, 0), fs, {})
          ELSE IF run.code # 0
            THEN BashExited(fs, run.code, trimmedOutput, wasTruncated, maxOutputBytes)
          ELSE BashSucceeded(fs, trimmedOutput, wasTruncated, maxOutputBytes))

bashTool(fs, input, proc) ==
  LET Captured(run, timeoutSeconds, maxOutputBytes, tr) ==
        BashOutcome(fs, run, timeoutSeconds, maxOutputBytes, tr.truncated,
                    TrimSpace(tr.text))
      Run(run, timeoutSeconds, maxOutputBytes) ==
        Captured(run, timeoutSeconds, maxOutputBytes,
                 truncateOutput(run.output, maxOutputBytes))
      Limits(timeoutSeconds, maxOutputBytes) ==
        Run(CombinedOutput(proc, timeoutSeconds), timeoutSeconds, maxOutputBytes)
      WithCommand(args, command) ==
        IF command = <<>>
          THEN ToolErr(toolInputValidationError(
                         "bash", Reason("missing required field \"command\"", "", <<>>),
                         BashExpected), fs, {})
        ELSE Limits(EffectiveLimit(args.TimeoutSeconds, defaultBashTimeoutSeconds,
                                   hardBashTimeoutSeconds),
                    EffectiveLimit(args.MaxOutputBytes, defaultBashMaxOutputBytes,
                                   hardBashMaxOutputBytes))
      Decoded(args) == WithCommand(args, BashCommand(args))
      Unmarshalled(raw, jsonErr) ==
        IF jsonErr # ""
          THEN ToolErr(toolInputValidationError("bash", Reason(jsonErr, "", <<>>),
                                                BashExpected), fs, {})
        ELSE Decoded([Command |-> StrField(raw, "command"), Cmd |-> StrField(raw, "cmd"),
                      TimeoutSeconds |-> IntField(raw, "timeout_seconds"),
                      MaxOutputBytes |-> IntField(raw, "max_output_bytes")])
      Trimmed(raw) ==
        Unmarshalled(raw, UnmarshalError(raw, {"command", "cmd"},
                                         {"timeout_seconds", "max_output_bytes"}, {}))
  IN Trimmed(OrEmptyObject(input))

(***************************************************************************)
(* The registry and the dispatch.                                          *)
(***************************************************************************)
\* A tool definition: its name and its function (the description and the
\* input schema go with the name).
ToolDefinition(name, function) == [Name |-> name, Function |-> function]

\* registeredTools(): the definitions, in their order.
registeredTools ==
  <<ToolDefinition("write_file", "writeFile"), ToolDefinition("edit_file", "editFiles"),
    ToolDefinition("edit_files", "editFiles"), ToolDefinition("bash", "bashTool"),
    ToolDefinition("read_file", "readFiles"), ToolDefinition("read_files", "readFiles"),
    ToolDefinition("list_files", "listFiles")>>

\* The names made of white space only: strings.TrimSpace(def.Name) == "".
BlankNames == {"", " ", "  "}

\* A tool map without entries.
NoTools == [n \in {} |-> ToolDefinition("", "")]

\* toolMap[def.Name] = def
WithTool(tools, def) ==
  [n \in DOMAIN tools \cup {def.Name} |-> IF n = def.Name THEN def ELSE tools[n]]

\* The tool map with the last definition of a name, whatever came before.
RECURSIVE buildToolRegistryLastWins(_)
buildToolRegistryLastWins(defs) ==
  IF defs = <<>>
    THEN [err |-> FALSE, text |-> NoText, toolMap |-> NoTools, anthropicTools |-> <<>>]
  ELSE LET Onto(built, def) ==
             IF built.err THEN built
             ELSE IF def.Name \in BlankNames
               THEN [err |-> TRUE, text |-> T("tool name cannot be empty", <<>>, <<>>, 0),
                     toolMap |-> NoTools, anthropicTools |-> <<>>]
             ELSE [built EXCEPT !.toolMap = WithTool(built.toolMap, def),
                                !.anthropicTools = Append(built.anthropicTools, def.Name)]
       IN Onto(buildToolRegistryLastWins(SubSeq(defs, 1, Len(defs) - 1)), defs[Len(defs)])

\* buildToolRegistry: the loop over the definitions.  The first definition
\* with a blank name, or with the name of an earlier one, ends it with an
\* error; otherwise each definition is put in the tool map and its name,
\* description and schema are appended to the advertised tools.
RECURSIVE buildToolRegistry(_)
buildToolRegistry(defs) ==
  IF defs = <<>>
    THEN [err |-> FALSE, text |-> NoText, toolMap |-> NoTools, anthropicTools |-> <<>>]
  ELSE LET Onto(built, def) ==
             IF built.err THEN built
             ELSE IF def.Name \in BlankNames
               THEN [err |-> TRUE, text |-> T("tool name cannot be empty", <<>>, <<>>, 0),
                     toolMap |-> NoTools, anthropicTools |-> <<>>]
             ELSE IF def.Name \in DOMAIN built.toolMap
               THEN [err |-> TRUE, text |-> T("duplicate tool name: %s", <<def.Name>>, <<>>, 0),
                     toolMap |-> NoTools, anthropicTools |-> <<>>]
             ELSE [built EXCEPT !.toolMap = WithTool(built.toolMap, def),
                                !.anthropicTools = Append(built.anthropicTools, def.Name)]
       IN Onto(buildToolRegistry(SubSeq(defs, 1, Len(defs) - 1)), defs[Len(defs)])

\* The names of the tool map built from registeredTools().
ToolNames == DOMAIN buildToolRegistry(registeredTools).toolMap

\* What a tool call meets outside the program: the I/O failure of a
\* filesystem tool and the run of a bash command.
Env(fault, proc) == [fault |-> fault, proc |-> proc]

\* tool.Function(toolUse.Input)
ToolFunction(function, fs, input, env) ==
  CASE function = "writeFile" -> writeFile(fs, input, env.fault)
    [] function = "editFiles" -> editFiles(fs, input, env.fault)
    [] function = "readFiles" -> readFiles(fs, input, env.fault)
    [] function = "listFiles" -> listFiles(fs, input, env.fault)
    [] function = "bashTool" -> bashTool(fs, input, env.proc)

\* runTool: an unknown name is an error result, an error of the tool
\* function is an error result with its text.
runTool(tools, fs, toolUse, env) ==
  IF toolUse.name \notin DOMAIN tools
    THEN ToolErr(T("unknown tool: %s", <<toolUse.name>>, <<>>, 0), fs, {})
  ELSE ToolFunction(tools[toolUse.name].Function, fs, toolUse.input, env)

(***************************************************************************)
(* State.                                                                  *)
(***************************************************************************)
VARIABLES
  fs,       \* the filesystem
  last,     \* the last tool call: its name, input, env, the filesystem
            \* before it, its result, and the write_file call that
            \* succeeded right before it (wrote)
  pc,       \* the position of runChatLoop: "prompt" (reading a line),
            \* "round" (top of the per-turn loop), "await" (request sent),
            \* "dispatch" (in the loop over toolUses), "roundEnd" (behind
            \* it), "done" (returned nil), "failed" (returned the error of
            \* the scanner); of main: "main" (started), "exit"
            \* (os.Exit(1) before runChatLoop)
  turn,
  history,  \* the last MaxHistory messages of history
  call,
  callFailed,
  lastFailureSignature,
  repeatedFailureCount,
  toolUses,
  idx,      \* the position in toolUses of the tool call to run next
  toolResults,
  allToolsFailed,
  failureSig,
  hasValidationError,
  printed,  \* the lines written to stdout by the latest step
  prevRound, \* the tool calls of the round of this turn before the
            \* current one, and whether all of them failed
  toolDefs,       \* main: the tool definitions
  toolMap,        \* main: the tool map, from the name to the definition
  anthropicTools, \* main: the names of the advertised tools, in their order
  sent,     \* the messages and the tools of the request in flight
  scanned   \* what the latest step has read from stdin

toolVars == <<fs, last>>
turnVars == <<call, callFailed, lastFailureSignature, repeatedFailureCount>>
roundVars == <<toolUses, idx, toolResults, allToolsFailed, failureSig, hasValidationError>>
registryVars == <<toolDefs, toolMap, anthropicTools>>
loopVars ==
  <<pc, turn, history, turnVars, roundVars, printed, prevRound, registryVars, sent, scanned>>
vars == <<toolVars, loopVars>>

\* No write_file call went right before.
NoWrite == [ok |-> FALSE, path |-> <<>>, content |-> <<>>]

NoCall ==
  [name |-> "", input |-> EmptyObject, env |-> Env("none", NoProc),
   before |-> [p \in {} |-> DirNode], res |-> ToolOk(NoText, [p \in {} |-> DirNode], {}, <<>>),
   wrote |-> NoWrite]

\* The record of the call of tool name with input under env on filesystem f.
CallRecord(f, name, input, env, wrote) ==
  [name |-> name, input |-> input, env |-> env, before |-> f,
   res |-> runTool(toolMap, f, [id |-> "t", name |-> name, input |-> input], env),
   wrote |-> wrote]

(***************************************************************************)
(* Messages and content blocks.  A block is a text block (s its text, or   *)
(* fmt the fixed text the program gives it), a tool_use block (id, name,   *)
(* input), a tool_result block (id, result, isErr) or a block of another   *)
(* type.                                                                   *)
(***************************************************************************)
Block(type, s, f, id, name, input, result, isErr) ==
  [type |-> type, s |-> s, fmt |-> f, id |-> id, name |-> name, input |-> input,
   result |-> result, isErr |-> isErr]

\* anthropic.NewTextBlock of a text that comes from outside the program
NewTextBlock(s) == Block("text", s, "", "", "", EmptyObject, NoText, FALSE)

\* anthropic.NewTextBlock of a fixed text of the program
NewFixedTextBlock(f) == Block("text", <<>>, f, "", "", EmptyObject, NoText, FALSE)

\* A tool_use block of a response.
ToolUseBlock(id, name, input) == Block("tool_use", <<>>, "", id, name, input, NoText, FALSE)

\* A tool_result block that loses the id of its call.
ToolResultBlockWithoutId(id, resultText, isError) ==
  Block("tool_result", <<>>, "", "", "", EmptyObject, resultText, isError)

\* anthropic.NewToolResultBlock(tool.ID, resultText, isError)
NewToolResultBlock(id, resultText, isError) ==
  Block("tool_result", <<>>, "", id, "", EmptyObject, resultText, isError)

\* A block that is neither text nor tool_use (a thinking block).
OtherBlock == Block("thinking", <<>>, "", "", "", EmptyObject, NoText, FALSE)

\* anthropic.NewUserMessage(blocks...), message.ToParam()
NewUserMessage(blocks) == [role |-> "user", content |-> blocks]
ToParam(blocks) == [role |-> "assistant", content |-> blocks]

\* The message m put in the place of the last message of h.
AppendMessageOverLast(h, m) ==
  IF h = <<>> THEN <<m>> ELSE Append(SubSeq(h, 1, Len(h) - 1), m)

\* history = append(history, m), of which the last MaxHistory messages are kept
AppendMessage(h, m) ==
  IF Len(h) < MaxHistory THEN Append(h, m) ELSE Append(SubSeq(h, 2, Len(h)), m)

\* ToolUse{ID, Name, Input}
ToolUse(id, name, input) == [id |-> id, name |-> name, input |-> input]

\* parseContent: the texts of the text blocks in one string, trimmed, and
\* the tool_use blocks in their order, a blank input replaced by "{}".
RECURSIVE ContentText(_)
ContentText(blocks) ==
  IF blocks = <<>> THEN <<>>
  ELSE (IF Head(blocks).type = "text" THEN Head(blocks).s ELSE <<>>)
       \o ContentText(Tail(blocks))

RECURSIVE ContentTools(_)
ContentTools(blocks) ==
  IF blocks = <<>> THEN <<>>
  ELSE (IF Head(blocks).type = "tool_use"
          THEN <<ToolUse(Head(blocks).id, Head(blocks).name,
                         IF IsBlankRaw(Head(blocks).input) THEN EmptyObject
                         ELSE Head(blocks).input)>>
        ELSE <<>>)
       \o ContentTools(Tail(blocks))

parseContent(blocks) ==
  [text |-> TrimSpace(ContentText(blocks)), tools |-> ContentTools(blocks)]

(***************************************************************************)
(* Failure signatures.  A signature is a string made of tool names, "=",   *)
(* raw inputs and "|"; the model writes such a string as the sequence of   *)
(* its pieces, a piece being a word or the text of a raw input.            *)
(***************************************************************************)
Word(w) == [w |-> w, raw |-> EmptyObject]
RawText(raw) == [w |-> "", raw |-> raw]

\* The pieces of a tool name.  The name "nope={}|nope" is the text that
\* the names and inputs of two calls of "nope" with input {} make.
JoinedName == "nope={}|nope"
NameText(name) ==
  IF name = JoinedName
    THEN <<Word("nope"), Word("="), RawText(EmptyObject), Word("|"), Word("nope")>>
  ELSE <<Word(name)>>

\* tool.Name + "=" + strings.TrimSpace(string(tool.Input))
SignatureEntry(tool) == NameText(tool.name) \o <<Word("="), RawText(TrimRaw(tool.input))>>

\* strings.Join(failureSig, "|")
RECURSIVE JoinSignature(_)
JoinSignature(entries) ==
  IF entries = <<>> THEN <<>>
  ELSE IF Len(entries) = 1 THEN entries[1]
  ELSE entries[1] \o <<Word("|")>> \o JoinSignature(Tail(entries))

\* The round before the current one: none.
NoRound == [calls |-> <<>>, allFailed |-> FALSE]

\* The name and the trimmed input of each call of a round.
RECURSIVE CallsOf(_)
CallsOf(uses) ==
  IF uses = <<>> THEN <<>>
  ELSE <<[name |-> Head(uses).name, input |-> TrimRaw(Head(uses).input)]>>
       \o CallsOf(Tail(uses))

\* A field left out of an object.
JAbsent == [t |-> "absent", s |-> <<>>, n |-> 0, b |-> FALSE]

\* The JSON object with the fields of f that are not left out.
Obj(f) ==
  LET present == {x \in DOMAIN f : f[x] # JAbsent}
  IN Raw(FALSE, "obj", [x \in present |-> f[x]])

\* The filesystem of the root, the workspace /w and a file /a outside it.
BaseFs ==
  [p \in {<<"/">>, cwd, <<"/", "a">>} |->
     IF p = <<"/", "a">> THEN FileNode(<<"b">>) ELSE DirNode]

WithNode(f, p, node) == [q \in DOMAIN f \cup {p} |-> IF q = p THEN node ELSE f[q]]

(***************************************************************************)
(* runChatLoop.                                                            *)
(***************************************************************************)
\* fmt.Fprintf(os.Stdout, "%s%s\n", assistantPrefix(...), ...)
AssistantLine(f, s, n) == T("%s%s\n", <<"assistantPrefix", f>>, s, n)

StopAfterRounds ==
  AssistantLine("Stopped after %d tool rounds in this turn to prevent a tool loop. Please provide corrected instructions and try again.",
                <<>>, maxToolRoundsPerTurn)

StopRepeatedFailures ==
  AssistantLine("Stopping tool loop after repeated identical tool failures. I need corrected tool inputs to continue.",
                <<>>, 0)

NoTextReturned == AssistantLine("(no text content returned)", <<>>, 0)

UserPrefixLine == T("%s", <<"userPrefix">>, <<>>, 0)

ValidationHint ==
  NewFixedTextBlock("One or more tool calls had invalid JSON input. Retry with exact required fields from each error message. For full file contents, use write_file with path and content. Do not call bash unless command is non-empty.")

\* The request for the next message of the assistant: the messages and the
\* tools it carries.
Request(messages, tools) == [messages |-> messages, tools |-> tools]
NoRequest == Request(<<>>, <<>>)

\* scanner.Scan(): a line, the end of the input ("eof") or an error of
\* the reader ("error"); NoScan when nothing was read.
Scan(kind, line) == [kind |-> kind, line |-> line]
NoScan == Scan("none", <<>>)

\* The state before the first line is read: main has built the registry of
\* registeredTools() and has called runChatLoop.
LoopInit ==
  /\ toolDefs = registeredTools
  /\ toolMap = buildToolRegistry(registeredTools).toolMap
  /\ anthropicTools = buildToolRegistry(registeredTools).anthropicTools
  /\ sent = NoRequest
  /\ scanned = NoScan
  /\ pc = "prompt"
  /\ turn = 0
  /\ history = <<>>
  /\ call = 0
  /\ callFailed = FALSE
  /\ lastFailureSignature = <<>>
  /\ repeatedFailureCount = 0
  /\ toolUses = <<>>
  /\ idx = 1
  /\ toolResults = <<>>
  /\ allToolsFailed = FALSE
  /\ failureSig = <<>>
  /\ hasValidationError = FALSE
  /\ printed = <<>>
  /\ prevRound = NoRound

\* The lines the user enters.
QuitLine == <<"/", "q", "u", "i", "t">>
ExitLine == <<"/", "e", "x", "i", "t">>
InputLines ==
  {<<>>, <<" ">>, QuitLine, <<" ">> \o ExitLine \o <<" ">>, <<"a">>, <<" ", "a", " ">>}

\* Locals of a turn that keep the values of the turn before.
TurnLocalsKept(previous) == previous

\* call := 0; callFailed := false; lastFailureSignature := "";
\* repeatedFailureCount := 0.  The locals are declared anew in every turn,
\* whatever the values of the turn before (previous) were.
TurnLocals(previous) ==
  [call |-> 0, callFailed |-> FALSE, lastFailureSignature |-> <<>>,
   repeatedFailureCount |-> 0]

\* The locals of the turn as they are.
turnLocals ==
  [call |-> call, callFailed |-> callFailed,
   lastFailureSignature |-> lastFailureSignature,
   repeatedFailureCount |-> repeatedFailureCount]

\* A line is read and taken as it is, the white space around it included.
ReadLineUntrimmed ==
  /\ pc = "prompt"
  /\ printed' = <<UserPrefixLine>>
  /\ \/ \* !scanner.Scan(): the end of the input, or scanner.Err() != nil
        \E end \in {"eof", "error"} :
          /\ scanned' = Scan(end, <<>>)
          /\ pc' = (IF end = "error" THEN "failed" ELSE "done")
          /\ UNCHANGED <<turn, history, turnVars, roundVars, prevRound>>
     \/ \E line \in InputLines :
          /\ scanned' = Scan("line", line)
          /\ LET Entered(prompt) ==
                   IF prompt = <<>>
                     THEN UNCHANGED <<pc, turn, history, turnVars, roundVars, prevRound>>
                   ELSE IF prompt = QuitLine \/ prompt = ExitLine
                     THEN /\ pc' = "done"
                          /\ UNCHANGED <<turn, history, turnVars, roundVars, prevRound>>
                   ELSE /\ turn < MaxTurns
                        /\ turn' = turn + 1
                        /\ history' = AppendMessage(history, NewUserMessage(<<NewTextBlock(prompt)>>))
                        /\ call' = TurnLocals(turnLocals).call
                        /\ callFailed' = TurnLocals(turnLocals).callFailed
                        /\ lastFailureSignature' = TurnLocals(turnLocals).lastFailureSignature
                        /\ repeatedFailureCount' = TurnLocals(turnLocals).repeatedFailureCount
                        /\ toolUses' = <<>>
                        /\ idx' = 1
                        /\ toolResults' = <<>>
                        /\ allToolsFailed' = FALSE
                        /\ failureSig' = <<>>
                        /\ hasValidationError' = FALSE
                        /\ prevRound' = NoRound
                        /\ pc' = "round"
             IN Entered(line)
  /\ UNCHANGED <<fs, last, registryVars, sent>>

\* The outer loop up to the per-turn loop: the prompt is printed and a line
\* is read.  End of input and /quit or /exit return, a blank line reads
\* again, another line begins a turn.
ReadLine ==
  /\ pc = "prompt"
  /\ printed' = <<UserPrefixLine>>
  /\ \/ \* !scanner.Scan(): the end of the input, or scanner.Err() != nil
        \E end \in {"eof", "error"} :
          /\ scanned' = Scan(end, <<>>)
          /\ pc' = (IF end = "error" THEN "failed" ELSE "done")
          /\ UNCHANGED <<turn, history, turnVars, roundVars, prevRound>>
     \/ \E line \in InputLines :
          /\ scanned' = Scan("line", line)
          /\ LET Entered(prompt) ==
                   IF prompt = <<>>
                     THEN UNCHANGED <<pc, turn, history, turnVars, roundVars, prevRound>>
                   ELSE IF prompt = QuitLine \/ prompt = ExitLine
                     THEN /\ pc' = "done"
                          /\ UNCHANGED <<turn, history, turnVars, roundVars, prevRound>>
                   ELSE /\ turn < MaxTurns
                        /\ turn' = turn + 1
                        /\ history' = AppendMessage(history, NewUserMessage(<<NewTextBlock(prompt)>>))
                        /\ call' = TurnLocals(turnLocals).call
                        /\ callFailed' = TurnLocals(turnLocals).callFailed
                        /\ lastFailureSignature' = TurnLocals(turnLocals).lastFailureSignature
                        /\ repeatedFailureCount' = TurnLocals(turnLocals).repeatedFailureCount
                        /\ toolUses' = <<>>
                        /\ idx' = 1
                        /\ toolResults' = <<>>
                        /\ allToolsFailed' = FALSE
                        /\ failureSig' = <<>>
                        /\ hasValidationError' = FALSE
                        /\ prevRound' = NoRound
                        /\ pc' = "round"
             IN Entered(TrimSpace(line))
  /\ UNCHANGED <<fs, last, registryVars, sent>>

\* A cap that lets one round more through.
RoundCapOneLate(c) == c > maxToolRoundsPerTurn

\* call >= maxToolRoundsPerTurn
RoundCapReached(c) == c >= maxToolRoundsPerTurn

\* A comparison that finds any two signatures the same.
SignatureAlwaysSame(signature, lastSignature) == TRUE

\* A comparison that never finds two signatures the same.
SignatureNeverSame(signature, lastSignature) == FALSE

\* signature == lastFailureSignature
SameSignature(signature, lastSignature) == signature = lastSignature

\* if call >= maxToolRoundsPerTurn { print the stop message; break }
StopAtRoundCap ==
  /\ pc = "round"
  /\ scanned' = NoScan
  /\ RoundCapReached(call)
  /\ printed' = <<StopAfterRounds>>
  /\ pc' = "prompt"
  /\ UNCHANGED <<fs, last, registryVars, sent, turn, history, turnVars, roundVars, prevRound>>

\* call++; sendAnthropicMessage(ctx, client, cfg.ModelID, history, tools)
SendRequest ==
  /\ pc = "round"
  /\ scanned' = NoScan
  /\ ~RoundCapReached(call)
  /\ call' = call + 1
  /\ pc' = "await"
  /\ printed' = <<>>
  /\ sent' = Request(history, anthropicTools)
  /\ UNCHANGED <<fs, last, registryVars, turn, history, callFailed, lastFailureSignature,
                 repeatedFailureCount, roundVars, prevRound>>

\* A failed request after which the loop of the turn sends the request
\* again.
ModelErrorRetried ==
  /\ pc = "await"
  /\ scanned' = NoScan
  /\ callFailed' = TRUE
  /\ pc' = "round"
  /\ printed' = <<>>
  /\ sent' = NoRequest
  /\ UNCHANGED <<fs, last, registryVars, turn, history, call, lastFailureSignature,
                 repeatedFailureCount, roundVars, prevRound>>

\* The request fails: callFailed = true; break; continue
ModelError ==
  /\ pc = "await"
  /\ scanned' = NoScan
  /\ callFailed' = TRUE
  /\ pc' = "prompt"
  /\ printed' = <<>>
  /\ sent' = NoRequest
  /\ UNCHANGED <<fs, last, registryVars, turn, history, call, lastFailureSignature,
                 repeatedFailureCount, roundVars, prevRound>>

\* The tool_use blocks the assistant sends.
UseList == ToolUseBlock("t1", "list_files", EmptyObject)
UseListBlank == ToolUseBlock("t1", "list_files", Raw(TRUE, "empty", NoFields))
UseReadMissing == ToolUseBlock("t1", "read_file", Obj([path |-> JStr(<<"b">>)]))
UseReadMissingPadded ==
  ToolUseBlock("t1", "read_file", Raw(TRUE, "obj", [x \in {"path"} |-> JStr(<<"b">>)]))
UseBashEmpty == ToolUseBlock("t2", "bash", EmptyObject)
UseUnknown == ToolUseBlock("t1", "nope", EmptyObject)
UseUnknownSecond == ToolUseBlock("t2", "nope", EmptyObject)
UseUnknownJoined == ToolUseBlock("t1", JoinedName, EmptyObject)
UseWrite ==
  ToolUseBlock("t2", "write_file",
               Obj([path |-> JStr(<<"a">>), content |-> JStr(<<"a">>)]))
UseListSecond == ToolUseBlock("t2", "list_files", EmptyObject)
UseListOfFile == ToolUseBlock("t1", "list_files", Obj([path |-> JStr(<<"a">>)]))

\* The contents of the responses of the assistant.
Responses ==
  {<<NewTextBlock(<<"a">>)>>,
   <<>>,
   <<NewTextBlock(<<" ">>), OtherBlock>>,
   <<UseList>>,
   <<UseListBlank>>,
   <<UseReadMissing>>,
   <<UseReadMissingPadded>>,
   <<UseReadMissing, UseBashEmpty>>,
   <<UseReadMissing, UseListSecond>>,
   <<UseUnknown, UseUnknownSecond>>,
   <<UseUnknownJoined>>,
   <<UseListOfFile>>,
   <<NewTextBlock(<<"a">>), UseWrite>>}

\* A response is taken in without the placeholder for a response that has
\* neither text nor tool calls.
ModelRespondsWithoutPlaceholder ==
  /\ pc = "await"
  /\ scanned' = NoScan
  /\ \E blocks \in Responses :
       LET Parsed(text, tools) ==
             /\ history' = AppendMessage(history, ToParam(blocks))
             /\ printed' = (IF text # <<>> THEN <<AssistantLine("%s", text, 0)>> ELSE <<>>)
             /\ IF tools = <<>>
                  THEN /\ pc' = "prompt"
                       /\ UNCHANGED <<roundVars, prevRound>>
                ELSE /\ pc' = "dispatch"
                     /\ toolUses' = tools
                     /\ idx' = 1
                     /\ toolResults' = <<>>
                     /\ allToolsFailed' = TRUE
                     /\ failureSig' = <<>>
                     /\ hasValidationError' = FALSE
                     /\ prevRound' = [calls |-> CallsOf(toolUses),
                                      allFailed |-> allToolsFailed]
       IN Parsed(parseContent(blocks).text, parseContent(blocks).tools)
  /\ sent' = NoRequest
  /\ UNCHANGED <<fs, last, registryVars, turn, turnVars>>

\* The response arrives: it is appended to history and parsed, its text is
\* printed, and without tool calls the turn is over.
ModelResponds ==
  /\ pc = "await"
  /\ scanned' = NoScan
  /\ \E blocks \in Responses :
       LET Parsed(text, tools) ==
             /\ history' = AppendMessage(history, ToParam(blocks))
             /\ printed' = (IF text # <<>> THEN <<AssistantLine("%s", text, 0)>> ELSE <<>>)
                           \o (IF tools = <<>> /\ text = <<>>
                                 THEN <<NoTextReturned>> ELSE <<>>)
             /\ IF tools = <<>>
                  THEN /\ pc' = "prompt"
                       /\ UNCHANGED <<roundVars, prevRound>>
                ELSE /\ pc' = "dispatch"
                     /\ toolUses' = tools
                     /\ idx' = 1
                     /\ toolResults' = <<>>
                     /\ allToolsFailed' = TRUE
                     /\ failureSig' = <<>>
                     /\ hasValidationError' = FALSE
                     /\ prevRound' = [calls |-> CallsOf(toolUses),
                                      allFailed |-> allToolsFailed]
       IN Parsed(parseContent(blocks).text, parseContent(blocks).tools)
  /\ sent' = NoRequest
  /\ UNCHANGED <<fs, last, registryVars, turn, turnVars>>

\* The lines printed around a tool call.
ToolLine(name) == T("%s: %s(%s)\n", <<"tool", name>>, <<>>, 0)
ResultLine(res) ==
  T("%s: %s\n", <<IF res.isErr THEN "error" ELSE "result", res.text.fmt>> \o res.text.a,
    res.text.s, res.text.n)

\* A pass of the loop over toolUses that leaves the loop behind a call that
\* failed.
DispatchToolUntilFailure ==
  /\ pc = "dispatch"
  /\ scanned' = NoScan
  /\ LET Ran(tool, res) ==
           /\ failureSig' = Append(failureSig, SignatureEntry(tool))
           /\ allToolsFailed' = (allToolsFailed /\ res.isErr)
           /\ hasValidationError' =
                (hasValidationError \/ (res.isErr /\ isToolInputValidationError(res.text)))
           /\ toolResults' = Append(toolResults,
                                    NewToolResultBlock(tool.id, res.text, res.isErr))
           /\ fs' = res.fs
           /\ printed' = <<ToolLine(tool.name)>> \o res.out \o <<ResultLine(res)>>
           /\ pc' = IF idx = Len(toolUses) \/ res.isErr THEN "roundEnd" ELSE "dispatch"
     IN Ran(toolUses[idx], runTool(toolMap, fs, toolUses[idx], Env("none", NoProc)))
  /\ idx' = idx + 1
  /\ UNCHANGED <<last, registryVars, sent, turn, history, turnVars, toolUses, prevRound>>

\* One pass of the loop over toolUses: the tool runs and its result is
\* recorded.
DispatchTool ==
  /\ pc = "dispatch"
  /\ scanned' = NoScan
  /\ LET Ran(tool, res) ==
           /\ failureSig' = Append(failureSig, SignatureEntry(tool))
           /\ allToolsFailed' = (allToolsFailed /\ res.isErr)
           /\ hasValidationError' =
                (hasValidationError \/ (res.isErr /\ isToolInputValidationError(res.text)))
           /\ toolResults' = Append(toolResults,
                                    NewToolResultBlock(tool.id, res.text, res.isErr))
           /\ fs' = res.fs
           /\ printed' = <<ToolLine(tool.name)>> \o res.out \o <<ResultLine(res)>>
     IN Ran(toolUses[idx], runTool(toolMap, fs, toolUses[idx], Env("none", NoProc)))
  /\ idx' = idx + 1
  /\ pc' = IF idx = Len(toolUses) THEN "roundEnd" ELSE "dispatch"
  /\ UNCHANGED <<last, registryVars, sent, turn, history, turnVars, toolUses, prevRound>>

\* The end of a round that leaves the stored signature and the counter as
\* they are behind a round with a call that succeeded.
RoundEndKeepsCount ==
  /\ pc = "roundEnd"
  /\ scanned' = NoScan
  /\ toolResults' = IF hasValidationError THEN Append(toolResults, ValidationHint)
                    ELSE toolResults
  /\ history' = AppendMessage(history, NewUserMessage(toolResults'))
  /\ IF allToolsFailed
       THEN /\ lastFailureSignature' = JoinSignature(failureSig)
            /\ repeatedFailureCount' =
                 IF SameSignature(JoinSignature(failureSig), lastFailureSignature)
                   THEN repeatedFailureCount + 1 ELSE 1
            /\ IF repeatedFailureCount' >= maxRepeatedToolFailures
                 THEN printed' = <<StopRepeatedFailures>> /\ pc' = "prompt"
               ELSE printed' = <<>> /\ pc' = "round"
     ELSE /\ lastFailureSignature' = lastFailureSignature
          /\ repeatedFailureCount' = repeatedFailureCount
          /\ printed' = <<>>
          /\ pc' = "round"
  /\ UNCHANGED <<fs, last, registryVars, sent, turn, call, callFailed, toolUses, idx, allToolsFailed,
                 failureSig, hasValidationError, prevRound>>

\* Behind the loop over toolUses: the results go to history, with the hint
\* behind them after a validation error, and the repeated-failure counter
\* is brought up to date.
RoundEnd ==
  /\ pc = "roundEnd"
  /\ scanned' = NoScan
  /\ toolResults' = IF hasValidationError THEN Append(toolResults, ValidationHint)
                    ELSE toolResults
  /\ history' = AppendMessage(history, NewUserMessage(toolResults'))
  /\ IF allToolsFailed
       THEN /\ lastFailureSignature' = JoinSignature(failureSig)
            /\ repeatedFailureCount' =
                 IF SameSignature(JoinSignature(failureSig), lastFailureSignature)
                   THEN repeatedFailureCount + 1 ELSE 1
            /\ IF repeatedFailureCount' >= maxRepeatedToolFailures
                 THEN printed' = <<StopRepeatedFailures>> /\ pc' = "prompt"
               ELSE printed' = <<>> /\ pc' = "round"
     ELSE /\ lastFailureSignature' = <<>>
          /\ repeatedFailureCount' = 0
          /\ printed' = <<>>
          /\ pc' = "round"
  /\ UNCHANGED <<fs, last, registryVars, sent, turn, call, callFailed, toolUses, idx, allToolsFailed,
                 failureSig, hasValidationError, prevRound>>

Init ==
  /\ fs = BaseFs
  /\ last = NoCall
  /\ LoopInit

Next ==
  \/ ReadLine
  \/ StopAtRoundCap
  \/ SendRequest
  \/ ModelError
  \/ ModelResponds
  \/ DispatchTool
  \/ RoundEnd

Spec == Init /\ [][Next]_vars

\* Every model round-trip and every tool call returns, and the loop goes on
\* from where it is within a turn; the user may stay away.  The position of
\* the loop is pc with the index of the next tool call, and every step of
\* the loop within a turn changes it.
LoopPositions == {"round", "await", "dispatch", "roundEnd"}
position == <<pc, idx>>
LoopAdvances ==
  /\ pc \in LoopPositions
  /\ pc' \in LoopPositions \cup {"prompt"}
  /\ idx' \in {1, idx, idx + 1}

FairSpec == Spec /\ WF_position(LoopAdvances)

(***************************************************************************)
(* main: the configuration is loaded, the registry is built from the tool  *)
(* definitions and runChatLoop is called; an error of the first two is     *)
(* written to stderr and the process exits with status 1.                  *)
(***************************************************************************)
\* The values of ANTHROPIC_API_KEY in the environment.
ApiKeys == {<<>>, <<" ">>, <<"k">>}

\* fmt.Fprintln(os.Stderr, "Error:", err)
ErrorLine(text) == T("Error: %s\n", <<text.fmt>> \o text.a, text.s, text.n)

\* What registeredTools() may hold: the definitions of the program, other
\* lists of definitions with names of their own, and lists with a blank or
\* a repeated name.
ListDef == ToolDefinition("list_files", "listFiles")
ReadDef == ToolDefinition("read_file", "readFiles")
DefinitionLists ==
  {registeredTools,
   <<ToolDefinition("nope", "listFiles"), ListDef>>,
   <<ToolDefinition("", "listFiles")>>,
   <<ListDef, ToolDefinition(" ", "readFiles")>>,
   <<ToolDefinition("  ", "readFiles"), ListDef, ListDef>>,
   <<ListDef, ReadDef, ListDef>>,
   <<ReadDef, ReadDef>>,
   <<ListDef, ToolDefinition("list_files", "readFiles")>>,
   <<ListDef, ListDef, ToolDefinition("", "readFiles")>>}

Main ==
  /\ pc = "main"
  /\ scanned' = NoScan
  /\ \E apiKey \in ApiKeys :
       LET Started(built) ==
             IF TrimSpace(apiKey) = <<>>
               THEN /\ printed' = <<ErrorLine(T("ANTHROPIC_API_KEY is not set", <<>>, <<>>, 0))>>
                    /\ pc' = "exit"
                    /\ UNCHANGED <<toolMap, anthropicTools>>
             ELSE IF built.err
               THEN /\ printed' = <<ErrorLine(built.text)>>
                    /\ pc' = "exit"
                    /\ UNCHANGED <<toolMap, anthropicTools>>
             ELSE /\ toolMap' = built.toolMap
                  /\ anthropicTools' = built.anthropicTools
                  /\ printed' = <<>>
                  /\ pc' = "prompt"
       IN Started(buildToolRegistry(toolDefs))
  /\ UNCHANGED <<fs, last, toolDefs, sent, turn, history, turnVars, roundVars, prevRound>>

\* The state in which main starts.
RegistryInit ==
  /\ fs = BaseFs
  /\ last = NoCall
  /\ toolDefs \in DefinitionLists
  /\ toolMap = NoTools
  /\ anthropicTools = <<>>
  /\ sent = NoRequest
  /\ scanned = NoScan
  /\ pc = "main"
  /\ turn = 0
  /\ history = <<>>
  /\ call = 0
  /\ callFailed = FALSE
  /\ lastFailureSignature = <<>>
  /\ repeatedFailureCount = 0
  /\ toolUses = <<>>
  /\ idx = 1
  /\ toolResults = <<>>
  /\ allToolsFailed = FALSE
  /\ failureSig = <<>>
  /\ hasValidationError = FALSE
  /\ printed = <<>>
  /\ prevRound = NoRound

RegistryNext ==
  \/ Main
  \/ ReadLine
  \/ StopAtRoundCap
  \/ SendRequest
  \/ ModelError
  \/ ModelResponds
  \/ DispatchTool
  \/ RoundEnd

RegistrySpec == RegistryInit /\ [][RegistryNext]_vars

(***************************************************************************)
(* runChatLoop of coder.go: the loop of a turn without the round cap and   *)
(* without the repeated-failure stop, over the one tool list_files.        *)
(***************************************************************************)
\* coder.go registeredTools
coderRegisteredTools == <<"list_files">>

\* coder.go runTool
coderRunTool(f, toolUse, env) ==
  IF toolUse.name \notin {coderRegisteredTools[i] : i \in 1..Len(coderRegisteredTools)}
    THEN ToolErr(T("unknown tool: %s", <<toolUse.name>>, <<>>, 0), f, {})
  ELSE listFiles(f, toolUse.input, env.fault)

\* The variables that coder.go does not have.
part000Vars ==
  <<lastFailureSignature, repeatedFailureCount, allToolsFailed, failureSig,
    hasValidationError, prevRound>>

CoderReadLine ==
  /\ pc = "prompt"
  /\ printed' = <<UserPrefixLine>>
  /\ \/ \E end \in {"eof", "error"} :
          /\ scanned' = Scan(end, <<>>)
          /\ pc' = (IF end = "error" THEN "failed" ELSE "done")
          /\ UNCHANGED <<turn, history, call, callFailed>>
     \/ \E line \in InputLines :
          /\ scanned' = Scan("line", line)
          /\ LET Entered(prompt) ==
                   IF prompt = <<>>
                     THEN UNCHANGED <<pc, turn, history, call, callFailed>>
                   ELSE IF prompt = QuitLine \/ prompt = ExitLine
                     THEN /\ pc' = "done"
                          /\ UNCHANGED <<turn, history, call, callFailed>>
                   ELSE /\ turn < MaxTurns
                        /\ turn' = turn + 1
                        /\ history' = AppendMessage(history, NewUserMessage(<<NewTextBlock(prompt)>>))
                        /\ call' = 0
                        /\ callFailed' = FALSE
                        /\ pc' = "round"
             IN Entered(TrimSpace(line))
  /\ UNCHANGED <<fs, last, registryVars, sent, toolUses, idx, toolResults, part000Vars>>

\* call++ (call is only logged: it is counted up to MaxCoderCalls);
\* sendAnthropicMessage(ctx, client, cfg.ModelID, history, anthropicTools)
CoderSendRequest ==
  /\ pc = "round"
  /\ scanned' = NoScan
  /\ call' = IF call < MaxCoderCalls THEN call + 1 ELSE call
  /\ pc' = "await"
  /\ printed' = <<>>
  /\ UNCHANGED <<fs, last, registryVars, sent, turn, history, callFailed, toolUses, idx, toolResults,
                 part000Vars>>

CoderModelError ==
  /\ pc = "await"
  /\ scanned' = NoScan
  /\ callFailed' = TRUE
  /\ pc' = "prompt"
  /\ printed' = <<>>
  /\ UNCHANGED <<fs, last, registryVars, sent, turn, history, call, toolUses, idx, toolResults,
                 part000Vars>>

CoderModelResponds ==
  /\ pc = "await"
  /\ scanned' = NoScan
  /\ \E blocks \in Responses :
       LET Parsed(text, tools) ==
             /\ history' = AppendMessage(history, ToParam(blocks))
             /\ printed' = (IF text # <<>> THEN <<AssistantLine("%s", text, 0)>> ELSE <<>>)
                           \o (IF tools = <<>> /\ text = <<>>
                                 THEN <<NoTextReturned>> ELSE <<>>)
             /\ IF tools = <<>>
                  THEN /\ pc' = "prompt"
                       /\ UNCHANGED <<toolUses, idx, toolResults>>
                ELSE /\ pc' = "dispatch"
                     /\ toolUses' = tools
                     /\ idx' = 1
                     /\ toolResults' = <<>>
       IN Parsed(parseContent(blocks).text, parseContent(blocks).tools)
  /\ UNCHANGED <<fs, last, registryVars, sent, turn, call, callFailed, part000Vars>>

CoderDispatchTool ==
  /\ pc = "dispatch"
  /\ scanned' = NoScan
  /\ LET Ran(tool, res) ==
           /\ toolResults' = Append(toolResults,
                                    NewToolResultBlock(tool.id, res.text, res.isErr))
           /\ fs' = res.fs
           /\ printed' = <<ToolLine(tool.name)>> \o <<ResultLine(res)>>
     IN Ran(toolUses[idx], coderRunTool(fs, toolUses[idx], Env("none", NoProc)))
  /\ idx' = idx + 1
  /\ pc' = IF idx = Len(toolUses) THEN "roundEnd" ELSE "dispatch"
  /\ UNCHANGED <<last, registryVars, sent, turn, history, call, callFailed, toolUses, part000Vars>>

\* history = append(history, anthropic.NewUserMessage(toolResults...)), and
\* the loop of the turn begins again.
CoderRoundEnd ==
  /\ pc = "roundEnd"
  /\ scanned' = NoScan
  /\ history' = AppendMessage(history, NewUserMessage(toolResults))
  /\ pc' = "round"
  /\ printed' = <<>>
  /\ UNCHANGED <<fs, last, registryVars, sent, turn, call, callFailed, toolUses, idx, toolResults,
                 part000Vars>>

CoderNext ==
  \/ CoderReadLine
  \/ CoderSendRequest
  \/ CoderModelError
  \/ CoderModelResponds
  \/ CoderDispatchTool
  \/ CoderRoundEnd

CoderSpec == Init /\ [][CoderNext]_vars

\* Every model round-trip and every tool call returns.
CoderFairSpec == CoderSpec /\ WF_position(LoopAdvances)

(***************************************************************************)
(* The inputs of the tool calls of ToolSpec.                               *)
(***************************************************************************)
\* The strings over {a, b} of at most n characters.
Strings(n) == UNION {[1..k -> {"a", "b"}] : k \in 0..n}

PathElemSet == {<<>>, Dot, DotDot, <<"a">>}

\* The path arguments: up to MaxPathElems elements joined by "/" (an empty
\* first element makes the path absolute), and the one-element paths with
\* white space around them.
PathArgs ==
  LET joined(n) == {JoinSlash(e) : e \in UNION {[1..k -> PathElemSet] : k \in 1..n}}
  IN joined(MaxPathElems) \cup {<<" ">> \o p \o <<" ">> : p \in joined(1)}

\* The path of the calls that range over the other arguments, and the
\* paths of the calls that meet an I/O failure.
ArgPath == <<"a">>
FaultPaths == {<<"a">>, <<"a", "/", "a">>}

IntArgs == {-1, 0, 1, 2, 300000}

OptBool == {JAbsent, JBool(FALSE), JBool(TRUE)}
OptInt == {JAbsent} \cup {JInt(n) : n \in IntArgs}

\* Every path argument with fixed other arguments.
WriteFilePathInputs ==
  {Obj([path |-> JStr(p), content |-> JStr(<<"a">>), overwrite |-> o]) :
     p \in PathArgs, o \in {JAbsent, JBool(TRUE)}}

\* Every content and overwrite argument on one path.
WriteFileArgInputs ==
  {Obj([path |-> JStr(ArgPath), content |-> JStr(c), overwrite |-> o]) :
     c \in Strings(MaxArgLen), o \in OptBool}

EditFilesPathInputs ==
  {Obj([path |-> JStr(p), old_str |-> JStr(o[1]), new_str |-> JStr(o[2])]) :
     p \in PathArgs,
     o \in {<<<<>>, <<"b">>>>, <<<<"a">>, <<"b">>>>, <<<<"b">>, <<"b">>>>, <<<<>>, <<>>>>}}

EditFilesArgInputs ==
  {Obj([path |-> JStr(ArgPath), old_str |-> JStr(o), new_str |-> JStr(n)]) :
     o \in Strings(MaxArgLen), n \in Strings(MaxArgLen)}

ReadFilesPathInputs ==
  {Obj([path |-> JStr(p), max_bytes |-> JAbsent]) : p \in PathArgs}

ReadFilesArgInputs ==
  {Obj([path |-> JStr(ArgPath), max_bytes |-> m]) : m \in OptInt}

ListFilesPathInputs ==
  {Obj([path |-> JStr(p), recursive |-> r, max_entries |-> JAbsent]) :
     p \in PathArgs, r \in {JAbsent, JBool(FALSE)}}

ListFilesArgInputs ==
  {Obj([path |-> x, recursive |-> r, max_entries |-> m]) :
     x \in {JAbsent, JStr(ArgPath)}, r \in OptBool, m \in OptInt}

(***************************************************************************)
(* The filesystems a session may start on: the root, the workspace /w and  *)
(* a file /a outside it, and in the workspace nothing, a file a, or a      *)
(* directory a that is empty or holds a file.                              *)
(***************************************************************************)
InitialFileSystems ==
  {BaseFs,
   WithNode(BaseFs, Join(cwd, <<"a">>), FileNode(<<"a", "a", "b">>)),
   WithNode(BaseFs, Join(cwd, <<"a">>), FileNode(<<"a", "a", "a">>)),
   WithNode(BaseFs, Join(cwd, <<"a">>), DirNode),
   WithNode(WithNode(BaseFs, Join(cwd, <<"a">>), DirNode),
            Join(cwd, <<"a", "/", "a">>), FileNode(<<"a", "b">>))}

\* Every file of f holds at most MaxContentLen bytes.
WithinContentBound(f) == \A p \in DOMAIN f : Len(f[p].content) <= MaxContentLen

(***************************************************************************)
(* ToolSpec: tool calls, one after the other, on a filesystem.             *)
(***************************************************************************)
\* One call of a tool function through runTool, when no result is waiting
\* to be taken.
Call(name, input, env) ==
  /\ last = NoCall
  /\ last' = CallRecord(fs, name, input, env, NoWrite)
  /\ fs' = last'.res.fs
  /\ WithinContentBound(fs')
  /\ UNCHANGED loopVars

\* The path and content arguments of a call (the content under the first
\* of its names that the input has).
PathArgOf(input) == StrField(OrEmptyObject(input), "path").s
ContentArgOf(input) ==
  ContentSource([Content |-> StrField(OrEmptyObject(input), "content"),
                 Text |-> StrField(OrEmptyObject(input), "text"),
                 Body |-> StrField(OrEmptyObject(input), "body"),
                 NewStr |-> StrField(OrEmptyObject(input), "new_str")]).s

\* A read_file call on the path of the write_file call that has just
\* succeeded, with nothing done in between.
ReadBackCall ==
  /\ last # NoCall
  /\ last.name = "write_file"
  /\ ~last.res.isErr
  /\ \E m \in OptInt :
       last' = CallRecord(fs, "read_file",
                          Obj([path |-> JStr(PathArgOf(last.input)), max_bytes |-> m]),
                          Env("none", NoProc),
                          [ok |-> TRUE, path |-> PathArgOf(last.input),
                           content |-> ContentArgOf(last.input)])
  /\ fs' = last'.res.fs
  /\ UNCHANGED loopVars

\* The caller takes the result of the call.
TakeResult ==
  /\ last # NoCall
  /\ last' = NoCall
  /\ UNCHANGED <<fs, loopVars>>

WriteFileCall ==
  \E input \in WriteFilePathInputs \cup WriteFileArgInputs :
    Call("write_file", input, Env("none", NoProc))

EditFilesCall ==
  \/ \E input \in EditFilesPathInputs : Call("edit_file", input, Env("none", NoProc))
  \/ \E input \in EditFilesArgInputs : Call("edit_files", input, Env("none", NoProc))

ReadFilesCall ==
  \/ \E input \in ReadFilesPathInputs : Call("read_file", input, Env("none", NoProc))
  \/ \E input \in ReadFilesArgInputs : Call("read_files", input, Env("none", NoProc))

ListFilesCall ==
  \E input \in ListFilesPathInputs \cup ListFilesArgInputs :
    Call("list_files", input, Env("none", NoProc))

\* A call of a writing or reading tool in which a system call fails.
FaultyCall ==
  \E p \in FaultPaths, fault \in FaultKinds \ {"none"} :
    \/ \E o \in {JAbsent, JBool(TRUE)} :
         Call("write_file",
              Obj([path |-> JStr(p), content |-> JStr(<<"a">>), overwrite |-> o]),
              Env(fault, NoProc))
    \/ \E o \in {<<>>, <<"a">>} :
         Call("edit_file",
              Obj([path |-> JStr(p), old_str |-> JStr(o), new_str |-> JStr(<<"b">>)]),
              Env(fault, NoProc))
    \/ Call("read_file", Obj([path |-> JStr(p)]), Env(fault, NoProc))

\* The inputs of a tool that are no JSON, JSON of another shape, nothing at
\* all, or an object that has some of the tool's fields and lacks others,
\* or has one of another type.
ShapeInputs(name) ==
  {Raw(FALSE, "bad", NoFields), Raw(TRUE, "bad", NoFields),
   Raw(FALSE, "array", NoFields), Raw(FALSE, "null", NoFields),
   Raw(FALSE, "empty", NoFields), Raw(TRUE, "empty", NoFields),
   Raw(TRUE, "obj", NoFields), EmptyObject,
   Obj([path |-> JInt(1)]), Obj([path |-> JNull]), Obj([path |-> JStr(<<" ">>)])}
  \cup
  (CASE name = "write_file" ->
          {Obj([path |-> p, content |-> c, text |-> t, body |-> b, new_str |-> n]) :
             p \in {JAbsent, JStr(ArgPath)},
             c \in {JAbsent, JNull, JStr(<<>>), JStr(<<"b">>)},
             t \in {JAbsent, JStr(<<"a">>)}, b \in {JAbsent, JStr(<<>>)},
             n \in {JAbsent, JStr(<<"a", "b">>)}}
     [] name \in {"edit_file", "edit_files"} ->
          {Obj([path |-> p, old_str |-> o, new_str |-> n]) :
             p \in {JAbsent, JStr(ArgPath)}, o \in {JAbsent, JStr(<<>>), JStr(<<"a">>)},
             n \in {JAbsent, JStr(<<>>), JStr(<<"b">>)}}
     [] name \in {"read_file", "read_files"} ->
          {Obj([path |-> p, max_bytes |-> m]) :
             p \in {JAbsent, JStr(ArgPath)}, m \in {JAbsent, JStr(<<"a">>)}}
     [] name = "list_files" ->
          {Obj([path |-> p, recursive |-> r]) :
             p \in {JAbsent, JStr(ArgPath)}, r \in {JAbsent, JInt(1)}}
     [] name = "bash" ->
          {Obj([command |-> c, cmd |-> a]) :
             c \in {JAbsent, JStr(<<>>), JStr(<<" ">>), JStr(<<"a">>), JInt(1)},
             a \in {JAbsent, JStr(<<" ">>), JStr(<<"b">>)}})

\* A call of a registered tool with an input of any shape; a bash command
\* that is run writes output and exits.
ShapeCall ==
  \E name \in ToolNames :
    \E input \in ShapeInputs(name) :
      Call(name, input, Env("none", Proc("exit", 0, <<"a">>, 0, 0, 0)))

ToolInit ==
  /\ fs \in InitialFileSystems
  /\ last = NoCall
  /\ LoopInit

ToolNext ==
  \/ WriteFileCall
  \/ EditFilesCall
  \/ ReadFilesCall
  \/ ListFilesCall
  \/ FaultyCall
  \/ ShapeCall
  \/ ReadBackCall
  \/ TakeResult

ToolSpec == ToolInit /\ [][ToolNext]_vars

(***************************************************************************)
(* BashSpec: bash calls, one after the other.                              *)
(***************************************************************************)
\* The outputs of the commands: up to MaxOutputLen bytes, white space among
\* them.
BashOutputs == UNION {[1..k -> {" ", "a"}] : k \in 0..MaxOutputLen}

\* A time beyond every timeout.
Forever == hardBashTimeoutSeconds + 80

\* The seconds of the shell, of the process that holds the output pipe and
\* of the process whose output is redirected: commands that end at once, in
\* one or two seconds or not by themselves, alone, with a child in the
\* foreground (it holds the pipe and the shell waits for it) or with a child
\* in the background.
BashTimings ==
  {<<0, 0, 0>>, <<1, 0, 0>>, <<2, 0, 0>>, <<Forever, 0, 0>>,
   <<3, 3, 0>>, <<Forever, Forever, 0>>, <<0, 3, 0>>,
   <<0, 0, 5>>, <<Forever, 0, Forever>>, <<3, 3, 5>>}

BashRuns ==
  {Proc("exit", c, o, t[1], t[2], t[3]) :
     c \in {0, 2}, o \in BashOutputs, t \in BashTimings}
    \cup {Proc("startfail", 0, <<>>, 0, 0, 0)}

\* Some runs for the calls that go through the inputs.
FewBashRuns ==
  {Proc("exit", 0, <<"a">>, 0, 0, 0), Proc("exit", 0, <<"a">>, Forever, 0, 0),
   Proc("exit", 2, <<" ", "a", "a">>, 2, 0, 0)}

OptBigInt == OptInt \cup {JBigInt, JInt(hardBashTimeoutSeconds), JInt(hardBashTimeoutSeconds + 1)}

\* The inputs of bash: the command and its alias, absent, blank or given,
\* with every value of the limits, and inputs that are not the JSON that is
\* asked for.
BashArgInputs ==
  {Obj([command |-> c, cmd |-> a, timeout_seconds |-> t, max_output_bytes |-> m]) :
     c \in {JAbsent, JStr(<<>>), JStr(<<" ">>), JStr(<<"a">>)},
     a \in {JAbsent, JStr(<<"b">>)},
     t \in OptBigInt, m \in OptBigInt}
    \cup {Raw(TRUE, "empty", NoFields), Raw(FALSE, "bad", NoFields),
          Raw(FALSE, "array", NoFields),
          Obj([command |-> JInt(1)]),
          Obj([command |-> JStr(<<"a">>), timeout_seconds |-> JStr(<<"a">>)])}

\* The inputs of the calls that go through the runs.
BashRunInputs ==
  {Obj([command |-> JStr(<<"a">>), timeout_seconds |-> t, max_output_bytes |-> m]) :
     t \in {JAbsent, JInt(1), JInt(2)}, m \in {JAbsent, JInt(1), JInt(2)}}

BashCall ==
  \/ \E input \in BashArgInputs, proc \in FewBashRuns :
       Call("bash", input, Env("none", proc))
  \/ \E input \in BashRunInputs, proc \in BashRuns :
       Call("bash", input, Env("none", proc))

BashInit ==
  /\ fs = BaseFs
  /\ last = NoCall
  /\ LoopInit

BashNext == BashCall \/ TakeResult

BashSpec == BashInit /\ [][BashNext]_vars

(***************************************************************************)
(* ListSpec: list_files calls, one after the other, on workspaces whose    *)
(* names have characters on both sides of "/" in the byte order.           *)
(***************************************************************************)
\* The workspace with the nodes at the paths of files and of dirs.
Workspace(files, dirs) ==
  [p \in DOMAIN BaseFs \cup {Join(cwd, q) : q \in files \cup dirs} |->
     IF p \in DOMAIN BaseFs THEN BaseFs[p]
     ELSE IF p \in {Join(cwd, q) : q \in dirs} THEN DirNode
     ELSE FileNode(<<"a">>)]

\* Workspaces: nothing; two files; a directory a with a file beside a file
\* a. or b; a directory with two files beside a file; directories in
\* directories beside a file a. or b.
ListFileSystems ==
  {BaseFs,
   Workspace({<<"a">>, <<"b">>}, {}),
   Workspace({<<"a", ".">>}, {<<"a">>}),
   Workspace({<<"a", "/", "a">>, <<"a", ".">>}, {<<"a">>}),
   Workspace({<<"a", "/", "a">>, <<"b">>}, {<<"a">>}),
   Workspace({<<"a", "/", "a">>, <<"a", "/", "b">>, <<"b">>}, {<<"a">>}),
   Workspace({<<"a", "/", "a", "/", "a">>, <<"a", ".">>}, {<<"a">>, <<"a", "/", "a">>}),
   Workspace({<<"a", "/", "a", "/", "a">>, <<"b">>}, {<<"a">>, <<"a", "/", "a">>})}

\* The inputs of the listings: the workspace or its directory a, in both
\* modes, with the limits 1 to 3 and without a limit.
ListingInputs ==
  {Obj([path |-> x, recursive |-> r, max_entries |-> m]) :
     x \in {JAbsent, JStr(<<"a">>)}, r \in OptBool,
     m \in {JAbsent, JInt(1), JInt(2), JInt(3)}}

ListingCall ==
  \E input \in ListingInputs : Call("list_files", input, Env("none", NoProc))

ListInit ==
  /\ fs \in ListFileSystems
  /\ last = NoCall
  /\ LoopInit

ListNext == ListingCall \/ TakeResult

ListSpec == ListInit /\ [][ListNext]_vars

(***************************************************************************)
(* Properties of the loop of a turn (Spec, CoderFairSpec).                 *)
(***************************************************************************)
\* The ids of the calls of a round and of the tool_result blocks of a
\* message, in their order.
RECURSIVE UseIds(_)
UseIds(uses) ==
  IF uses = <<>> THEN <<>> ELSE <<Head(uses).id>> \o UseIds(Tail(uses))

RECURSIVE ToolResultIds(_)
ToolResultIds(blocks) ==
  IF blocks = <<>> THEN <<>>
  ELSE (IF Head(blocks).type = "tool_result" THEN <<Head(blocks).id>> ELSE <<>>)
       \o ToolResultIds(Tail(blocks))

\* The failure signature of the calls of a round.
RECURSIVE SignatureOfCalls(_)
SignatureOfCalls(calls) ==
  IF calls = <<>> THEN <<>>
  ELSE NameText(Head(calls).name) \o <<Word("="), RawText(Head(calls).input)>>
       \o (IF Len(calls) = 1 THEN <<>>
           ELSE <<Word("|")>> \o SignatureOfCalls(Tail(calls)))

\* The dispatch of the round with the number maxToolRoundsPerTurn is over.
LastRoundDispatched == pc = "roundEnd" /\ call = maxToolRoundsPerTurn

\* Every call of this round and of the round before it failed, and the two
\* rounds have the same failure signature.
RepeatsFailedRound ==
  /\ allToolsFailed
  /\ prevRound.allFailed
  /\ SignatureOfCalls(prevRound.calls) = SignatureOfCalls(CallsOf(toolUses))

\* C1 (as stated): a turn has at most maxToolRoundsPerTurn model
\* round-trips, and a turn whose first maxToolRoundsPerTurn responses all
\* request tool calls ends after the dispatch of the last of these rounds
\* with the message 'Stopped after 16 tool rounds', without another model
\* call.
C1_StoppedAfterSixteenRounds ==
  [][/\ call' <= maxToolRoundsPerTurn
     /\ (call = maxToolRoundsPerTurn /\ pc \in {"roundEnd", "round"})
          => /\ pc' \in {"round", "prompt"}
             /\ pc' = "prompt" => printed' = <<StopAfterRounds>>]_vars

\* C1 (as amended): a turn has at most maxToolRoundsPerTurn model
\* round-trips, and a turn whose first maxToolRoundsPerTurn responses all
\* request tool calls ends after the dispatch of the last of these rounds
\* without another model call: with the message of the repeated identical
\* failures when every call of the last round failed and the round before it
\* failed throughout with the same signature, and with the message 'Stopped
\* after 16 tool rounds' otherwise, also when every call succeeded.
C1_RoundCap ==
  [][/\ call' <= maxToolRoundsPerTurn
     /\ (LastRoundDispatched /\ RepeatsFailedRound)
          => (pc' = "prompt" /\ printed' = <<StopRepeatedFailures>>)
     /\ (LastRoundDispatched /\ ~RepeatsFailedRound)
          => (pc' = "round" /\ call' = call)
     /\ (pc = "round" /\ call = maxToolRoundsPerTurn)
          => (pc' = "prompt" /\ printed' = <<StopAfterRounds>>)]_vars

\* The turn was stopped at the cap behind a round whose calls succeeded.
C1_Witness ==
  /\ pc = "prompt"
  /\ call = maxToolRoundsPerTurn
  /\ printed = <<StopAfterRounds>>
  /\ ~allToolsFailed
  /\ Len(toolResults) = Len(toolUses)
  /\ \A i \in 1..Len(toolResults) : ~toolResults[i].isErr

\* C2: when every call of two rounds of a turn, one after the other, failed
\* and the rounds have the same tool names and trimmed raw inputs in the same
\* order, the turn ends behind the second round with the message 'Stopping
\* tool loop after repeated identical tool failures', without another model
\* call and without another dispatch.
C2_RepeatedFailureStops ==
  [][(/\ pc = "roundEnd"
      /\ allToolsFailed
      /\ prevRound.allFailed
      /\ prevRound.calls = CallsOf(toolUses))
       => (/\ pc' = "prompt"
           /\ printed' = <<StopRepeatedFailures>>
           /\ call' = call
           /\ fs' = fs)]_vars

\* The turn was stopped behind the second of two failed rounds whose raw
\* inputs are the same once trimmed.
C2_Witness ==
  /\ pc = "prompt"
  /\ printed = <<StopRepeatedFailures>>
  /\ prevRound.allFailed
  /\ prevRound.calls = CallsOf(toolUses)
  /\ \E i \in 1..Len(toolUses) : toolUses[i].input.ws

\* The last message of history is the user message with the results of the
\* calls of the round, one tool_result block for each call in their order.
ResultsInHistory ==
  /\ history # <<>>
  /\ history[Len(history)].role = "user"
  /\ ToolResultIds(history[Len(history)].content) = UseIds(toolUses)

\* C3: the calls of a round run one at a time in the order received, the
\* user message appended for the round has exactly one tool_result block for
\* each call, with the ids of the calls in their order, and it is appended
\* before the next model request and also when the round stops the turn.
C3_ResultsMatchCalls ==
  /\ [](pc \in {"dispatch", "roundEnd"}
          => /\ idx \in 1..(Len(toolUses) + 1)
             /\ (pc = "roundEnd") = (idx = Len(toolUses) + 1)
             /\ ToolResultIds(toolResults) = UseIds(SubSeq(toolUses, 1, idx - 1))
             /\ Len(toolResults) = idx - 1)
  /\ []((pc = "round" /\ call > 0) => ResultsInHistory)
  /\ [][(pc = "roundEnd") => (pc' \in {"round", "prompt"} /\ ResultsInHistory')]_vars
  /\ [][(pc' = "await") => (pc = "round" /\ (call > 0 => ResultsInHistory))]_vars

\* The results of a round of two calls are in history, with the hint behind
\* them.
C3_Witness ==
  /\ pc = "round"
  /\ call > 0
  /\ Len(toolUses) = 2
  /\ hasValidationError
  /\ Len(history[Len(history)].content) = 3
  /\ ResultsInHistory

\* The formats of the execution errors: unknown tool, missing or
\* inaccessible path, directory-type mismatch, I/O failure, a command that
\* could not be run.
ExecutionErrorFormats ==
  {"unknown tool: %s",
   "failed to access path %q: %w",
   "path is a directory: %s",
   "path is not a directory: %s",
   "failed to read file %q: %w",
   "failed to write file %q: %w",
   "failed to create file %q: %w",
   "failed to create parent directory for %q: %w",
   "failed to execute command: %w"}

\* The block is the result of a call that failed with a text of formats.
FailedWith(block, formats) ==
  block.type = "tool_result" /\ block.isErr /\ block.result.fmt \in formats

\* A call of the round whose results are content failed with a validation
\* error.
HasValidationFailure(content) ==
  \E i \in 1..Len(content) : FailedWith(content[i], InvalidFormats)

\* A call of the round failed, and every failure is an execution error.
OnlyExecutionFailures(content) ==
  /\ \E i \in 1..Len(content) : content[i].type = "tool_result" /\ content[i].isErr
  /\ \A i \in 1..Len(content) :
       (content[i].type = "tool_result" /\ content[i].isErr)
         => FailedWith(content[i], ExecutionErrorFormats)

\* The message content of a round with the calls uses: the results of the
\* calls, and behind them one text block without id exactly when a call
\* failed with a validation error.
HintRule(uses, content) ==
  /\ ToolResultIds(content) = UseIds(uses)
  /\ \A i \in 1..Len(uses) : content[i].type = "tool_result"
  /\ IF HasValidationFailure(content)
       THEN /\ Len(content) = Len(uses) + 1
            /\ content[Len(content)].type = "text"
            /\ content[Len(content)].id = ""
            /\ content[Len(content)] = ValidationHint
     ELSE Len(content) = Len(uses)
  /\ OnlyExecutionFailures(content) => Len(content) = Len(uses)

\* C11: the message with the results of a round has one text block more,
\* behind all tool_result blocks and without a tool-call id, exactly when a
\* call of the round failed with a validation error; the number of
\* tool_result blocks is the number of calls, and a round whose failures are
\* execution errors only has no such block.
C11_ValidationHint ==
  [][(pc = "roundEnd") => HintRule(toolUses, history'[Len(history')].content)]_vars

\* The results of a round with a validation error and an execution error
\* are in history, the hint behind them.
C11_Witness ==
  /\ pc = "round"
  /\ call > 0
  /\ history[Len(history)].role = "user"
  /\ HasValidationFailure(history[Len(history)].content)
  /\ \E i \in 1..Len(history[Len(history)].content) :
       FailedWith(history[Len(history)].content[i], ExecutionErrorFormats)
  /\ history[Len(history)].content[Len(history[Len(history)].content)] = ValidationHint

\* Every block of content that is the result of a call is an error result,
\* and there is one.
AllResultsFailed(content) ==
  /\ \E i \in 1..Len(content) : content[i].type = "tool_result"
  /\ \A i \in 1..Len(content) : content[i].type = "tool_result" => content[i].isErr

\* C12: the round counter, the last failure signature and the
\* repeated-failure counter belong to the turn: when a turn begins they are
\* 0, empty and 0, whatever the turns before did, so that the turn has its
\* maxToolRoundsPerTurn rounds again and a first round whose calls all fail
\* counts as the first failure of its signature.
C12_TurnScopedCounters ==
  /\ [][(turn' # turn)
          => (/\ call' = 0
              /\ lastFailureSignature' = <<>>
              /\ repeatedFailureCount' = 0
              /\ pc' = "round")]_vars
  /\ [][(pc = "round" /\ call < maxToolRoundsPerTurn)
          => (pc' = "await" /\ call' = call + 1)]_vars
  /\ [][(pc = "roundEnd" /\ call = 1 /\ AllResultsFailed(toolResults))
          => (repeatedFailureCount' = 1 /\ pc' = "round")]_vars

\* The second turn has begun behind a turn that was stopped after a round
\* of failed calls.
C12_Witness ==
  /\ turn = 2
  /\ pc = "round"
  /\ call = 0
  /\ lastFailureSignature = <<>>
  /\ repeatedFailureCount = 0
  /\ Len(history) = 2
  /\ history[1].role = "user"
  /\ AllResultsFailed(history[1].content)

\* C13: behind a round with a call that succeeded the repeat counter is 0
\* and the stored signature is empty; behind a round whose calls all failed
\* and whose signature is not the stored one the counter is 1 and the
\* signature of the round is stored; behind a round whose calls all failed
\* and whose signature is the stored one the counter is one more than before.
C13_RepeatCounterRule ==
  [][(pc = "roundEnd")
       => IF ~AllResultsFailed(toolResults)
            THEN repeatedFailureCount' = 0 /\ lastFailureSignature' = <<>>
          ELSE IF SignatureOfCalls(CallsOf(toolUses)) # lastFailureSignature
            THEN /\ repeatedFailureCount' = 1
                 /\ lastFailureSignature' = SignatureOfCalls(CallsOf(toolUses))
          ELSE /\ repeatedFailureCount' = repeatedFailureCount + 1
               /\ lastFailureSignature' = lastFailureSignature]_vars

\* A round whose calls all failed came behind a failed round of another
\* signature: the counter is 1 again and the new signature is stored.
C13_Witness ==
  /\ pc = "round"
  /\ call > 1
  /\ prevRound.allFailed
  /\ AllResultsFailed(toolResults)
  /\ SignatureOfCalls(prevRound.calls) # SignatureOfCalls(CallsOf(toolUses))
  /\ repeatedFailureCount = 1
  /\ lastFailureSignature = SignatureOfCalls(CallsOf(toolUses))

\* C14: when a model round-trip fails the turn ends at once: there is no
\* other model call in the turn, nothing is appended to history for the turn
\* (what is in history stays), and the loop reads the next line of the user
\* instead of returning.
C14_TransportErrorEndsTurn ==
  /\ [][(pc = "await" /\ callFailed')
          => (/\ pc' = "prompt"
              /\ history' = history
              /\ call' = call
              /\ turn' = turn)]_vars
  /\ [][(pc = "prompt" /\ callFailed)
          => (/\ printed' = <<UserPrefixLine>>
              /\ call' # call + 1
              /\ (history' # history) => (turn' = turn + 1))]_vars
  /\ [](callFailed => pc \in {"prompt", "done", "failed"})

\* The request of the second round of a turn failed: the results of the
\* first round are the last message of history.
C14_Witness ==
  /\ callFailed
  /\ pc = "prompt"
  /\ call = 2
  /\ ResultsInHistory

\* C4: when every model round-trip and every tool call returns, every turn
\* ends and the loop is back at the user prompt, whatever the model answers.
C4_EveryTurnTerminates == (pc = "round") ~> (pc = "prompt")

(***************************************************************************)
(* Properties of the tool calls (ToolSpec).                                *)
(***************************************************************************)
Called == last # NoCall

EditNames == {"edit_file", "edit_files"}
ReadNames == {"read_file", "read_files"}
FileToolNames == {"write_file", "list_files"} \cup EditNames \cup ReadNames

\* The arguments of the last call as decoded.
LastPath == PathArgOf(last.input)
LastOld == StrField(OrEmptyObject(last.input), "old_str").s
LastNew == StrField(OrEmptyObject(last.input), "new_str").s
LastOverwrite ==
  /\ ~BoolField(OrEmptyObject(last.input), "overwrite").nil
  /\ BoolField(OrEmptyObject(last.input), "overwrite").b

\* The results of the three resolvers for the path of the last call on the
\* filesystem the call found.
LastResolutions ==
  {resolveWorkspaceFileForWrite(last.before, LastPath),
   resolveWorkspaceFile(last.before, LastPath),
   resolveWorkspaceDir(last.before, LastPath)}

\* The file the last write or edit call addresses.
LastTarget == resolveWorkspaceFileForWrite(last.before, LastPath)

\* The last call addresses a path that resolves to an existing file.
OnExistingFile ==
  /\ ~LastTarget.err
  /\ LastTarget.abs \in DOMAIN last.before
  /\ last.before[LastTarget.abs].kind = "file"

LastContentBefore == last.before[LastTarget.abs].content

\* The filesystem f with the content of file p replaced by c.
WithContent(f, p, c) == [f EXCEPT ![p] = FileNode(c)]

\* The last call left the filesystem as it found it.
LeftUnchanged == last.res.fs = last.before /\ fs = last.before

\* The paths whose node the last call created, removed or changed.
Touched ==
  {p \in DOMAIN last.before \cup DOMAIN last.res.fs :
     \/ p \notin DOMAIN last.before
     \/ p \notin DOMAIN last.res.fs
     \/ last.before[p] # last.res.fs[p]}

\* The cleaned form of the trimmed path is ".." or begins with "../".
LastPathEscapes ==
  \/ Clean(TrimSpace(LastPath)) = <<".", ".">>
  \/ HasPrefix(Clean(TrimSpace(LastPath)), <<".", ".", "/">>)

\* C5: for a path argument whose cleaned form is ".." or begins with "../",
\* each of the three resolvers fails with "path escapes the current
\* workspace" without touching the filesystem, and the tool called with it
\* returns an error, has made no filesystem access and has left every file
\* and directory as it was.
C5_EscapingPathRejected ==
  (Called /\ last.name \in FileToolNames /\ LastPathEscapes) =>
    /\ \A r \in LastResolutions :
         r.err /\ r.text = PathEscapesWorkspace /\ r.log = {}
    /\ last.res.isErr
    /\ last.res.log = {}
    /\ LeftUnchanged

\* A read_file call on "../a", the existing file outside the workspace, was
\* answered with the escape error.
C5_Witness ==
  /\ Called
  /\ last.name = "read_file"
  /\ LastPath = <<".", ".", "/", "a">>
  /\ <<"/", "a">> \in DOMAIN last.before
  /\ last.res.isErr
  /\ last.res.text = PathEscapesWorkspace

\* The trimmed path argument of the last call is absolute.
LastPathAbsolute == TrimSpace(LastPath) # <<>> /\ Head(TrimSpace(LastPath)) = "/"

StartPositions(content, sub) ==
  {i \in 1..(Len(content) - Len(sub) + 1) : SubSeq(content, i, i + Len(sub) - 1) = sub}

\* The last call is an edit with a non-empty old_str and a new_str different
\* from it, of an existing file, and no system call fails.
EditOfExistingFile ==
  /\ Called
  /\ last.name \in EditNames
  /\ last.env.fault = "none"
  /\ LastOld # <<>>
  /\ ~StrField(OrEmptyObject(last.input), "new_str").nil
  /\ LastOld # LastNew
  /\ OnExistingFile

\* content with the Len(old) bytes at position i replaced by new.
ReplacedAt(content, i, old, new) ==
  SubSeq(content, 1, i - 1) \o new \o SubSeq(content, i + Len(old), Len(content))

\* C7: an edit of an existing file whose content holds the non-empty old_str
\* at exactly one position succeeds with "edited file <path>"; the new
\* content is the bytes before that position, new_str, and the bytes behind
\* the occurrence, and nothing else in the filesystem changes.
C7_SingleOccurrenceReplaced ==
  (EditOfExistingFile /\ Cardinality(StartPositions(LastContentBefore, LastOld)) = 1) =>
    /\ ~last.res.isErr
    /\ last.res.text = T("edited file %s", <<>>, LastTarget.display, 0)
    /\ \A i \in StartPositions(LastContentBefore, LastOld) :
         last.res.fs = WithContent(last.before, LastTarget.abs,
                                   ReplacedAt(LastContentBefore, i, LastOld, LastNew))
    /\ fs = last.res.fs

\* An edit replaced the single "b" in the middle of a file, keeping the
\* bytes on both sides.
C7_Witness ==
  /\ EditOfExistingFile
  /\ Len(LastContentBefore) = 3
  /\ StartPositions(LastContentBefore, LastOld) = {2}
  /\ ~last.res.isErr
  /\ fs[LastTarget.abs].content # LastContentBefore

\* C8: an edit of an existing file with a non-empty old_str fails with the
\* not-found error when old_str begins at no position of the content, and
\* with the "appears multiple times" error when it begins at more than one
\* position, overlapping occurrences included; the file is unchanged in
\* both cases.
C8_ZeroOrSeveralOccurrencesFail ==
  EditOfExistingFile =>
    /\ StartPositions(LastContentBefore, LastOld) = {} =>
         /\ last.res.isErr
         /\ last.res.text = T("old_str not found in file: %s", <<>>, LastTarget.display, 0)
         /\ LeftUnchanged
    /\ Cardinality(StartPositions(LastContentBefore, LastOld)) > 1 =>
         /\ last.res.isErr
         /\ last.res.text =
              T("old_str appears multiple times in file: %s; provide more specific text",
                <<>>, LastTarget.display, 0)
         /\ LeftUnchanged

\* The last call is a write_file call, with a content argument, on a path
\* that resolves to an existing file.
WriteOnExistingFile ==
  /\ Called
  /\ last.name = "write_file"
  /\ ~StrField(OrEmptyObject(last.input), "content").nil
  /\ OnExistingFile

\* C9: write_file on an existing file fails with a validation error and
\* leaves the file as it is when overwrite is absent or false; with
\* overwrite true (and no failing system call) it succeeds and the content
\* of the file is exactly the content argument, the rest of the filesystem
\* being unchanged.
C9_OverwriteSemantics ==
  WriteOnExistingFile =>
    /\ ~LastOverwrite =>
         /\ last.res.isErr
         /\ isToolInputValidationError(last.res.text)
         /\ LeftUnchanged
    /\ (LastOverwrite /\ last.env.fault = "none") =>
         /\ ~last.res.isErr
         /\ last.res.text = T("wrote file %s", <<>>, LastTarget.display, 0)
         /\ last.res.fs = WithContent(last.before, LastTarget.abs,
                                      ContentArgOf(last.input))
         /\ fs = last.res.fs

\* A write_file call with overwrite true put a shorter content in the place
\* of a three-byte file.
C9_Witness ==
  /\ WriteOnExistingFile
  /\ LastOverwrite
  /\ Len(LastContentBefore) = 3
  /\ Len(ContentArgOf(last.input)) = 1
  /\ fs[LastTarget.abs].content = ContentArgOf(last.input)

\* The read limit in effect in the last call.
LastReadLimit ==
  EffectiveLimit(IntField(OrEmptyObject(last.input), "max_bytes"),
                 defaultReadFilesMaxBytes, hardReadFilesMaxBytes)

\* The last call is a read of the path that the write_file call right
\* before it has written with success.
ReadBack ==
  /\ Called
  /\ last.name \in ReadNames
  /\ last.wrote.ok
  /\ last.wrote.path = LastPath

\* C10: a read of the path that a successful write_file call has just
\* written, with nothing done in between, returns the written content as
\* its result text whenever the content is no longer than the read limit
\* in effect.
C10_WriteReadRoundTrip ==
  (ReadBack /\ Len(last.wrote.content) <= LastReadLimit) =>
    /\ ~last.res.isErr
    /\ last.res.text = T("%s", <<>>, last.wrote.content, 0)

\* A two-byte content was read back under a read limit of two bytes.
C10_Witness ==
  /\ ReadBack
  /\ Len(last.wrote.content) = 2
  /\ LastReadLimit = 2
  /\ last.res.text = T("%s", <<>>, last.wrote.content, 0)

(***************************************************************************)
(* Properties of bash (BashSpec).                                          *)
(***************************************************************************)
BashCalled == last # NoCall /\ last.name = "bash"

\* The input was taken and the command was handed to bash.
CommandRun == BashCalled /\ last.res.text.fmt \notin InvalidFormats

\* The limits as asked for, 0 when they are absent.
AskedTimeout == IntField(OrEmptyObject(last.input), "timeout_seconds")
AskedMaxOutput == IntField(OrEmptyObject(last.input), "max_output_bytes")

\* The limit in force for the value asked: the value from 1 to the hard cap,
\* the default for no value and values below 1, the hard cap above it.
LimitInForce(asked, default, hard) ==
  IF asked < 1 THEN default ELSE IF asked > hard THEN hard ELSE asked

TimeoutInForce ==
  LimitInForce(AskedTimeout, defaultBashTimeoutSeconds, hardBashTimeoutSeconds)
MaxOutputInForce ==
  LimitInForce(AskedMaxOutput, defaultBashMaxOutputBytes, hardBashMaxOutputBytes)

TimedOutFormat == "Command timed out after %d seconds."
ExitedFormat == "Command exited with code %d."
NoOutputFormat == "Command completed successfully with no output."
TruncationNotice == "\n\n(output truncated at max_output_bytes=%d)"

\* The command was started and the shell is running when the timeout
\* elapses.
RunningAtTimeout ==
  /\ CommandRun
  /\ last.env.proc.kind = "exit"
  /\ last.env.proc.shell >= TimeoutInForce

\* The command was started and all of its processes that hold the output
\* have ended before the timeout elapses.
EndedBeforeTimeout ==
  /\ CommandRun
  /\ last.env.proc.kind = "exit"
  /\ last.env.proc.shell < TimeoutInForce
  /\ last.env.proc.holder < TimeoutInForce

\* The captured output as the result shows it: cut at the limit, and the
\* white space around it taken away.
ShownOutput ==
  TrimSpace(SubSeq(last.env.proc.output, 1,
                   Min(Len(last.env.proc.output), MaxOutputInForce)))

\* C15: when the command is running at the moment its timeout of N seconds
\* elapses, the result is not an error, its text begins with 'Command timed
\* out after N seconds.' and goes on with the output captured, and the call
\* returns at the timeout, without waiting for the command to end by itself;
\* N is the timeout asked for when that is from 1 to 120.
C15_TimeoutReturnsAtTimeout ==
  RunningAtTimeout
    => /\ ~last.res.isErr
       /\ last.res.text.fmt = TimedOutFormat
       /\ last.res.text.n = TimeoutInForce
       /\ last.res.text.s = ShownOutput
       /\ (AskedTimeout \in 1..hardBashTimeoutSeconds)
            => last.res.text.n = AskedTimeout
       /\ last.res.elapsed = TimeoutInForce

\* C16: a command that runs and exits with a code other than 0 before the
\* timeout gives a result that is not an error and reports 'Command exited
\* with code <c>.' with the output; a command that could not be started
\* gives an error result; and bash gives an error result for nothing but a
\* command that could not be run and an input that is not valid.
C16_ExitIsResultStartFailureIsError ==
  /\ (EndedBeforeTimeout /\ last.env.proc.code # 0)
       => /\ ~last.res.isErr
          /\ last.res.text.fmt = ExitedFormat
          /\ last.res.text.n = last.env.proc.code
          /\ last.res.text.s = ShownOutput
  /\ (CommandRun /\ last.env.proc.kind = "startfail") => last.res.isErr
  /\ (BashCalled /\ last.res.isErr)
       => \/ last.res.text.fmt \in InvalidFormats
          \/ last.env.proc.kind = "startfail"

\* A command exited with code 2 before the timeout and left output.
C16_Witness ==
  /\ EndedBeforeTimeout
  /\ last.env.proc.code = 2
  /\ ShownOutput # <<>>
  /\ ~last.res.isErr
  /\ last.res.text.fmt = ExitedFormat

IsEmptyText(text) ==
  /\ text.fmt \in {"", "%s"}
  /\ text.s = <<>>
  /\ \A i \in 1..Len(text.a) : text.a[i] = ""

\* C18: a result of bash that is not an error is never the empty string:
\* when the command exits with code 0 and its output is empty the text is
\* 'Command completed successfully with no output.', and every other result
\* that is not an error has a status sentence or output.
C18_NeverEmptySuccess ==
  /\ (BashCalled /\ ~last.res.isErr) => ~IsEmptyText(last.res.text)
  /\ (EndedBeforeTimeout /\ last.env.proc.code = 0 /\ last.env.proc.output = <<>>)
       => (~last.res.isErr /\ last.res.text = T(NoOutputFormat, <<>>, <<>>, 0))

\* A command exited with code 0 before the timeout and wrote nothing.
C18_Witness ==
  /\ EndedBeforeTimeout
  /\ last.env.proc.code = 0
  /\ last.env.proc.output = <<>>
  /\ last.res.text.fmt = NoOutputFormat

\* The value of the field of the input is an integer, or the field is
\* absent.
IntegerOrAbsent(name) ==
  /\ OrEmptyObject(last.input).k = "obj"
  /\ (name \in DOMAIN OrEmptyObject(last.input).f)
       => OrEmptyObject(last.input).f[name].t \in {"int", "bigint"}

\* The input has a command and nothing but its limits could be wrong.
CommandGiven ==
  /\ BashCalled
  /\ IntegerOrAbsent("timeout_seconds")
  /\ IntegerOrAbsent("max_output_bytes")
  /\ ~StrField(OrEmptyObject(last.input), "command").nil
  /\ TrimSpace(StrField(OrEmptyObject(last.input), "command").s) # <<>>
  /\ "cmd" \notin DOMAIN OrEmptyObject(last.input).f

\* C19: whatever integers timeout_seconds and max_output_bytes are, the call
\* is not rejected for them, and the values in force are from the default to
\* the hard cap: 30..120 seconds, as the text of a timeout reports them, and
\* 32000..256000 bytes, as the truncation notice reports them.
C19_LimitsClampedNeverRejected ==
  CommandGiven
    => /\ last.res.text.fmt \notin InvalidFormats
       /\ (last.res.text.fmt = TimedOutFormat)
            => last.res.text.n \in defaultBashTimeoutSeconds..hardBashTimeoutSeconds
       /\ (\E i \in 1..Len(last.res.text.a) : last.res.text.a[i] = TruncationNotice)
            => last.res.text.m \in defaultBashMaxOutputBytes..hardBashMaxOutputBytes

\* C20: when a command times out, every process that it started is ended
\* before the call returns: none is running behind the result.
C20_NoProcessOutlivesTimeout ==
  (CommandRun /\ last.res.text.fmt = TimedOutFormat) => last.res.alive = {}


(***************************************************************************)
(* Properties of list_files, of the validation of inputs and of the writes *)
(* and reads (ToolSpec).                                                   *)
(***************************************************************************)
\* The directory the last list_files call addresses.
LastListDir == resolveWorkspaceDir(last.before, LastPath)

\* The last call is a list_files call, with an input that decodes, on a path
\* that resolves to a directory.
ListOnDirectory ==
  /\ Called
  /\ last.name = "list_files"
  /\ last.res.text.fmt # "invalid list_files input: %w"
  /\ ~LastListDir.err

LastRecursive ==
  \/ BoolField(OrEmptyObject(last.input), "recursive").nil
  \/ BoolField(OrEmptyObject(last.input), "recursive").b

LastListLimit ==
  LimitInForce(IntField(OrEmptyObject(last.input), "max_entries"),
               defaultListFilesMaxEntries, hardListFilesMaxEntries)

\* The entries in the scope of the listing: the subtree of the directory, or
\* its one level.
ListScope ==
  {p \in DOMAIN last.before :
     /\ p # LastListDir.abs
     /\ IF LastRecursive THEN Beneath(LastListDir.abs, p)
        ELSE Dir(p) = LastListDir.abs}

\* The listing of the entries S: their names, sorted.
Listing(S) ==
  MarshalStrings(SortStrings({EntryName(last.before, LastListDir.abs, p) : p \in S}))

TruncatedListFormat == "Searched %s\nListed %d files (truncated at max_entries=%d)\n"

ListTruncationReported ==
  \E i \in 1..Len(last.res.out) : last.res.out[i].fmt = TruncatedListFormat

\* C21: list_files on a directory with N entries in the scope and the limit
\* M returns min(N, M) of the entries, in ascending order and with "/" behind
\* the directories, and reports truncation exactly when N > M.
C21_ListReturnsMinAndReportsTruncation ==
  ListOnDirectory =>
    /\ ~last.res.isErr
    /\ \E S \in SUBSET ListScope :
         /\ Cardinality(S) = Min(Cardinality(ListScope), LastListLimit)
         /\ last.res.text = T("%s", <<>>, Listing(S), 0)
    /\ ListTruncationReported <=> Cardinality(ListScope) > LastListLimit
    /\ LeftUnchanged

\* The input of the last call as the tool decodes it.
LastRaw == OrEmptyObject(last.input)

\* The text of the input is not JSON.
Malformed == TrimRaw(last.input).k = "bad"

\* The input has no field x.
Lacks(x) == LastRaw.k # "obj" \/ x \notin DOMAIN LastRaw.f

\* The input has no field x that is a string with more than white space.
LacksNonBlank(x) ==
  \/ Lacks(x)
  \/ LastRaw.f[x].t # "str"
  \/ TrimSpace(LastRaw.f[x].s) = <<>>

\* The input lacks a required field of the file tools: path, and for
\* write_file the content under each of its names, for the edits old_str or
\* new_str.
LacksFileToolField ==
  \/ /\ last.name \in {"write_file"} \cup EditNames \cup ReadNames
     /\ Lacks("path")
  \/ /\ last.name = "write_file"
     /\ \A x \in {"content", "text", "body", "new_str"} : Lacks(x)
  \/ /\ last.name \in EditNames
     /\ (Lacks("old_str") \/ Lacks("new_str"))

\* The result is an error whose text begins with "invalid " and that
\* isToolInputValidationError takes for a validation error.
Rejected ==
  /\ last.res.isErr
  /\ last.res.text.fmt \in InvalidFormats
  /\ isToolInputValidationError(last.res.text)

\* An input that is empty or white space gives what the input {} gives.
BlankInputIsEmptyObject ==
  (Called /\ IsBlankRaw(last.input))
    => last.res = runTool(toolMap, last.before,
                          [id |-> "t", name |-> last.name, input |-> EmptyObject],
                          last.env)

\* C22, as stated: a call of a tool whose input is not JSON or lacks a
\* required field (for bash: a command that is not blank) returns an error
\* result whose text begins with "invalid " and that is a validation error
\* for isToolInputValidationError; an empty or white input counts as {}.
C22_InvalidInputRejected ==
  /\ (/\ Called
      /\ last.name \in ToolNames
      /\ \/ Malformed
         \/ LacksFileToolField
         \/ (last.name = "bash" /\ LacksNonBlank("command")))
       => Rejected
  /\ BlankInputIsEmptyObject

\* C22, amended: the command of bash may come under the name cmd when
\* command is absent or blank; the call is rejected when neither field
\* holds a command that is not blank.
C22_InvalidInputRejectedUnlessAlias ==
  /\ (/\ Called
      /\ last.name \in ToolNames
      /\ \/ Malformed
         \/ LacksFileToolField
         \/ (last.name = "bash" /\ LacksNonBlank("command") /\ LacksNonBlank("cmd")))
       => Rejected
  /\ BlankInputIsEmptyObject

\* A bash call with a blank command and a blank cmd was rejected.
C22_Witness ==
  /\ Called
  /\ last.name = "bash"
  /\ ~Lacks("command")
  /\ ~Lacks("cmd")
  /\ LacksNonBlank("command")
  /\ LacksNonBlank("cmd")
  /\ Rejected

\* The last call was rejected with a validation error.
RejectedAsInvalid ==
  /\ Called
  /\ last.name \in ToolNames
  /\ last.res.isErr
  /\ isToolInputValidationError(last.res.text)

\* C23: a tool call that is rejected with a validation error has no side
\* effect: the files, their contents and the directories are after the call
\* as they were before it, nothing was written or made, and no process was
\* started.
C23_RejectedCallHasNoEffect ==
  RejectedAsInvalid =>
    /\ LeftUnchanged
    /\ \A a \in last.res.log : a.op \notin {"write", "mkdir", "exec"}
    /\ last.res.alive = {}
    /\ last.res.elapsed = 0

\* A write_file call on an existing file without overwrite was rejected, and
\* so was a bash call without a command.
C23_Witness ==
  /\ RejectedAsInvalid
  /\ \/ /\ last.name = "write_file"
        /\ OnExistingFile
        /\ ~Lacks("content")
        /\ ContentArgOf(last.input) # LastContentBefore
     \/ /\ last.name = "bash"
        /\ LacksNonBlank("command")
        /\ LacksNonBlank("cmd")

\* Nothing exists at the path the last call addresses, and a file can be
\* made there: the deepest of its ancestors that exists is a directory.
OnFreePath ==
  /\ ~LastTarget.err
  /\ LastTarget.abs \notin DOMAIN last.before
  /\ last.before[DeepestExisting(last.before, LastTarget.abs)].kind = "dir"

\* The filesystem before the last call with the missing directories above
\* the target made and the target a file of content c.
WithNewFile(c) ==
  [q \in DOMAIN last.before \cup MissingDirs(last.before, Dir(LastTarget.abs))
           \cup {LastTarget.abs} |->
     IF q = LastTarget.abs THEN FileNode(c)
     ELSE IF q \in DOMAIN last.before THEN last.before[q]
     ELSE DirNode]

\* The last call is an edit with an empty old_str and a new_str that is not
\* empty, and no system call fails.
EditWithEmptyOld ==
  /\ Called
  /\ last.name \in EditNames
  /\ last.env.fault = "none"
  /\ ~Lacks("old_str")
  /\ LastOld = <<>>
  /\ LastNew # <<>>

\* C24: an edit with an empty old_str and a new_str that is not empty
\* creates the file, and the directories missing above it, with new_str as
\* its content and answers "created file <path>" when the file does not
\* exist; when it exists the content becomes the old content followed by
\* new_str and the answer is "edited file <path>".  An edit with an old_str
\* that is not empty of a file that does not exist fails and creates
\* nothing.
C24_EmptyOldCreatesOrAppends ==
  /\ (EditWithEmptyOld /\ OnFreePath) =>
       /\ ~last.res.isErr
       /\ last.res.text = T("created file %s", <<>>, LastTarget.display, 0)
       /\ last.res.fs = WithNewFile(LastNew)
       /\ fs = last.res.fs
  /\ (EditWithEmptyOld /\ OnExistingFile) =>
       /\ ~last.res.isErr
       /\ last.res.text = T("edited file %s", <<>>, LastTarget.display, 0)
       /\ last.res.fs = WithContent(last.before, LastTarget.abs,
                                    LastContentBefore \o LastNew)
       /\ fs = last.res.fs
  /\ (/\ Called
      /\ last.name \in EditNames
      /\ LastOld # <<>>
      /\ ~LastTarget.err
      /\ LastTarget.abs \notin DOMAIN last.before) =>
       /\ last.res.isErr
       /\ LeftUnchanged

\* An edit with an empty old_str created a file and the directory above it.
C24_Witness ==
  /\ EditWithEmptyOld
  /\ OnFreePath
  /\ MissingDirs(last.before, Dir(LastTarget.abs)) # {}
  /\ ~last.res.isErr
  /\ fs[LastTarget.abs] = FileNode(LastNew)
  /\ fs[Dir(LastTarget.abs)] = DirNode

\* The last call is an edit whose old_str and new_str are the same string.
EditWithSameStrings ==
  /\ Called
  /\ last.name \in EditNames
  /\ ~Lacks("old_str")
  /\ ~Lacks("new_str")
  /\ LastRaw.f["old_str"].t = "str"
  /\ LastRaw.f["new_str"].t = "str"
  /\ LastOld = LastNew

\* C25: an edit whose old_str equals its new_str, both empty included, is
\* rejected with a validation error whatever its path is and whether the
\* file exists or not, and leaves the filesystem as it was: no empty file is
\* made.
C25_SameStringsRejected ==
  EditWithSameStrings =>
    /\ Rejected
    /\ LeftUnchanged
    /\ last.res.log = {}

\* An edit with an empty old_str and an empty new_str of a path where
\* nothing exists was rejected, and nothing exists there afterwards.
C25_Witness ==
  /\ EditWithSameStrings
  /\ LastOld = <<>>
  /\ OnFreePath
  /\ Rejected
  /\ LastTarget.abs \notin DOMAIN fs

\* The last call is a write_file call with a content, and no system call
\* fails.
WriteWithContent ==
  /\ Called
  /\ last.name = "write_file"
  /\ last.env.fault = "none"
  /\ \E x \in {"content", "text", "body", "new_str"} :
       ~Lacks(x) /\ LastRaw.f[x].t = "str"
  /\ ~Lacks("path")
  /\ LastRaw.f["path"].t = "str"
  /\ \A x \in DOMAIN LastRaw.f : LastRaw.f[x].t \in {"str", "bool"}

\* The path of the last call is not blank and is a directory of the
\* workspace.
OnExistingDirectory ==
  /\ TrimSpace(LastPath) # <<>>
  /\ ~resolveWorkspaceDir(last.before, LastPath).err

\* The path of the last call is the workspace root.
OnWorkspaceRoot == Clean(TrimSpace(LastPath)) = Dot

PathIsDirectoryFormat == "path is a directory: %s"

\* write_file on a path where nothing exists makes the missing directories
\* and the file with the content given and answers "wrote file <path>".
WriteCreates ==
  (WriteWithContent /\ OnFreePath) =>
    /\ ~last.res.isErr
    /\ last.res.text = T("wrote file %s", <<>>, LastTarget.display, 0)
    /\ last.res.fs = WithNewFile(ContentArgOf(last.input))
    /\ fs = last.res.fs

\* C26, as stated: write_file on a path where nothing exists creates the
\* missing directories and the file with exactly the content given and
\* answers "wrote file <path>"; on a path that is a directory it fails with
\* the error "path is a directory" and changes nothing, with overwrite true
\* as without it.
C26_WriteCreatesAndRefusesDirectory ==
  /\ WriteCreates
  /\ (WriteWithContent /\ OnExistingDirectory) =>
       /\ last.res.isErr
       /\ last.res.text.fmt = PathIsDirectoryFormat
       /\ LeftUnchanged

\* C26, amended: when the directory is the workspace root the error is
\* "path must point to a file".
C26_WriteCreatesAndRefusesDirectoryOrRoot ==
  /\ WriteCreates
  /\ (WriteWithContent /\ OnExistingDirectory) =>
       /\ last.res.isErr
       /\ IF OnWorkspaceRoot THEN last.res.text = PathMustPointToFile
          ELSE last.res.text =
                 T(PathIsDirectoryFormat, <<>>,
                   resolveWorkspaceDir(last.before, LastPath).display, 0)
       /\ LeftUnchanged

\* A write_file call made two directories and the file beneath them.
C26_Witness ==
  /\ WriteWithContent
  /\ OnFreePath
  /\ Cardinality(MissingDirs(last.before, Dir(LastTarget.abs))) = 2
  /\ ~last.res.isErr
  /\ fs[LastTarget.abs] = FileNode(ContentArgOf(last.input))

\* The last call is a read with a path and, if any, an integer max_bytes,
\* and no system call fails.
ReadWithPath ==
  /\ Called
  /\ last.name \in ReadNames
  /\ last.env.fault = "none"
  /\ ~Lacks("path")
  /\ LastRaw.f["path"].t = "str"
  /\ Lacks("max_bytes") \/ LastRaw.f["max_bytes"].t = "int"

\* The limit of the read: max_bytes, 32000 when it is absent or below 1, at
\* most 256000.
ReadLimitInForce ==
  LimitInForce(IntField(LastRaw, "max_bytes"),
               defaultReadFilesMaxBytes, hardReadFilesMaxBytes)

TruncatedReadFormat == "Read %s (%d bytes, truncated at max_bytes=%d)\n"

ReadTruncationReported ==
  \E i \in 1..Len(last.res.out) : last.res.out[i].fmt = TruncatedReadFormat

\* C27: a read of an existing file of L bytes under the limit B returns as
\* its text exactly the first min(L, B) bytes of the file and reports
\* truncation exactly when L > B; a read of a path that is a directory or
\* where nothing exists returns an error; and no read changes the
\* filesystem.
C27_ReadReturnsPrefix ==
  /\ (ReadWithPath /\ OnExistingFile) =>
       /\ ~last.res.isErr
       /\ last.res.text =
            T("%s", <<>>,
              SubSeq(LastContentBefore, 1, Min(Len(LastContentBefore), ReadLimitInForce)),
              0)
       /\ ReadTruncationReported <=> Len(LastContentBefore) > ReadLimitInForce
  /\ (/\ ReadWithPath
      /\ \/ OnExistingDirectory
         \/ (~LastTarget.err /\ LastTarget.abs \notin DOMAIN last.before))
       => last.res.isErr
  /\ (Called /\ last.name \in ReadNames) => LeftUnchanged

\* A read of a file of three bytes under a limit of two bytes returned the
\* first two and reported the truncation.
C27_Witness ==
  /\ ReadWithPath
  /\ OnExistingFile
  /\ Len(LastContentBefore) = 3
  /\ ReadLimitInForce = 2
  /\ last.res.text = T("%s", <<>>, SubSeq(LastContentBefore, 1, 2), 0)
  /\ ReadTruncationReported


(***************************************************************************)
(* Properties of the registry (RegistrySpec) and of the rounds and the     *)
(* history of the chat loop (Spec).                                        *)
(***************************************************************************)
\* The names of the definitions, in their order.
NamesOf(defs) == [i \in 1..Len(defs) |-> defs[i].Name]

\* A definition has a name that is empty or white space only.
HasBlankName(defs) == \E i \in 1..Len(defs) : defs[i].Name \in BlankNames

\* A definition has the name of an earlier one.
HasRepeatedName(defs) ==
  \E i \in 1..Len(defs) : \E j \in 1..Len(defs) : i < j /\ defs[i].Name = defs[j].Name

\* The tool map has one entry per definition, the definition itself.
OneEntryPerDefinition(tools, defs) ==
  /\ DOMAIN tools = {defs[i].Name : i \in 1..Len(defs)}
  /\ Cardinality(DOMAIN tools) = Len(defs)
  /\ \A i \in 1..Len(defs) : tools[defs[i].Name] = defs[i]

\* The process has left before runChatLoop: nothing was read, sent or run.
LeftBeforeLoop ==
  /\ pc = "exit"
  /\ turn = 0 /\ history = <<>> /\ call = 0
  /\ sent = NoRequest /\ last = NoCall /\ fs = BaseFs

\* C28: main with a definition whose name is blank or repeats an earlier
\* one exits with status 1 before the chat loop and nothing follows; with
\* an API key and without such a definition the tool map has exactly one
\* entry per definition and the advertised tools are the definitions in
\* their order; no later step changes the registry, and every request
\* carries the advertised tools in that order.
C28_RegistryBuiltOrExit ==
  [][/\ pc # "exit"
     /\ pc = "main" =>
          /\ (HasBlankName(toolDefs) \/ HasRepeatedName(toolDefs)) => LeftBeforeLoop'
          /\ pc' = "exit" => LeftBeforeLoop'
          /\ pc' # "exit" =>
               /\ pc' = "prompt"
               /\ OneEntryPerDefinition(toolMap', toolDefs)
               /\ anthropicTools' = NamesOf(toolDefs)
     /\ pc # "main" => UNCHANGED registryVars
     /\ pc' = "await" => sent'.tools = NamesOf(toolDefs)]_vars

\* main has refused a list of definitions for a repeated name alone.
C28_Witness ==
  /\ LeftBeforeLoop
  /\ HasRepeatedName(toolDefs) /\ ~HasBlankName(toolDefs)
  /\ printed = <<ErrorLine(T("duplicate tool name: %s", <<"list_files">>, <<>>, 0))>>

\* A request went out under a registry other than the program's own.
C28_BuiltWitness ==
  /\ pc = "await" /\ toolDefs # registeredTools
  /\ sent.tools = <<"nope", "list_files">>

\* The tool call has a name that the tool map does not have.
UnknownTool(tool) == tool.name \notin DOMAIN toolMap

\* What the function of the tool returns for the call.
FunctionResult(tool) ==
  ToolFunction(toolMap[tool.name].Function, fs, tool.input, Env("none", NoProc))

\* The call fails, and the text of its failure.
CallFails(tool) == UnknownTool(tool) \/ FunctionResult(tool).isErr
FailureText(tool) ==
  IF UnknownTool(tool) THEN T("unknown tool: %s", <<tool.name>>, <<>>, 0)
  ELSE FunctionResult(tool).text

\* The block is the error result of the call with the text.
IsErrorResult(block, tool, text) ==
  /\ block.type = "tool_result"
  /\ block.id = tool.id
  /\ block.isErr
  /\ block.result = text

\* The blocks are the first blocks of the content, in their order.
LeadsContent(blocks, content) ==
  /\ Len(blocks) <= Len(content)
  /\ SubSeq(content, 1, Len(blocks)) = blocks

\* C29: a call that fails, by an unknown name or by an error of the tool
\* function, gives an error result with the text of the failure ("unknown
\* tool: <name>" for the unknown name), the loop goes on with the calls
\* behind it, the results of all calls of the round, failed ones included,
\* are appended to history as one message, and the session ends at the
\* prompt only, never in a round.
C29_ToolFailureKeepsRoundAndSession ==
  /\ [][(pc = "dispatch")
          => /\ idx' = idx + 1
             /\ pc' = (IF idx < Len(toolUses) THEN "dispatch" ELSE "roundEnd")
             /\ Len(toolResults') = idx
             /\ SubSeq(toolResults', 1, idx - 1) = toolResults
             /\ CallFails(toolUses[idx])
                  => IsErrorResult(toolResults'[idx], toolUses[idx],
                                   FailureText(toolUses[idx]))]_vars
  /\ [][(pc = "roundEnd")
          => /\ pc' \in {"round", "prompt"}
             /\ Len(toolResults) = Len(toolUses)
             /\ history'[Len(history')].role = "user"
             /\ LeadsContent(toolResults, history'[Len(history')].content)]_vars
  /\ [][(pc' \in {"done", "failed"}) => (pc = "prompt")]_vars

\* The results of a round of two calls are in history: the first call had
\* an unknown name, and so had the second.
C29_Witness ==
  /\ pc = "round"
  /\ call > 0
  /\ Len(toolUses) = 2
  /\ UnknownTool(toolUses[1])
  /\ Len(history[Len(history)].content) = 2
  /\ IsErrorResult(history[Len(history)].content[1], toolUses[1],
                   T("unknown tool: %s", <<"nope">>, <<>>, 0))
  /\ IsErrorResult(history[Len(history)].content[2], toolUses[2],
                   T("unknown tool: %s", <<"nope">>, <<>>, 0))

\* The results of a round are in history: the first call failed in its
\* function and the second call succeeded.
C29_MixedWitness ==
  /\ pc = "round"
  /\ call > 0
  /\ Len(toolUses) = 2
  /\ ~UnknownTool(toolUses[1])
  /\ Len(history[Len(history)].content) = 2
  /\ history[Len(history)].content[1].isErr
  /\ ~history[Len(history)].content[2].isErr

\* h2 holds the messages of h in their order and one message behind them:
\* of h, as of h2, the last MaxHistory messages are looked at, so that the
\* first message of a full h is not among those of h2.
OneMessageAppended(h, h2) ==
  /\ Len(h2) = (IF Len(h) < MaxHistory THEN Len(h) + 1 ELSE MaxHistory)
  /\ \A i \in 1..(Len(h2) - 1) : h2[i] = h[i + (Len(h) + 1 - Len(h2))]

TurnEndsWithoutTransportError ==
  /\ pc \in LoopPositions
  /\ pc' = "prompt"
  /\ ~callFailed'

\* The trimmed text of the last message of history.
LastMessageText(h) == TrimSpace(ContentText(h[Len(h)].content))

\* C31: the step that ends a turn without a failed request prints one line
\* with the assistant prefix: the stop message of the round cap at the top
\* of the loop, the stop message of the repeated failures behind a round,
\* and behind a response without tool calls its text, or the placeholder
\* when it has no text; the step after it prints the next prompt.
C31_TurnEndShowsAssistantLine ==
  /\ [][TurnEndsWithoutTransportError
          => /\ pc = "round" => printed' = <<StopAfterRounds>>
             /\ pc = "roundEnd" => printed' = <<StopRepeatedFailures>>
             /\ pc = "await"
                  => /\ history'[Len(history')].role = "assistant"
                     /\ printed' = (IF LastMessageText(history') # <<>>
                                      THEN <<AssistantLine("%s", LastMessageText(history'), 0)>>
                                    ELSE <<NoTextReturned>>)
             /\ pc \in {"round", "roundEnd", "await"}]_vars
  /\ [][(pc = "prompt" /\ pc' # "prompt") => printed' = <<UserPrefixLine>>]_vars

\* A turn has ended with the placeholder: the response had no text and no
\* tool call.
C31_Witness ==
  /\ pc = "prompt"
  /\ turn > 0
  /\ ~callFailed
  /\ printed = <<NoTextReturned>>
  /\ history[Len(history)].role = "assistant"
  /\ ContentTools(history[Len(history)].content) = <<>>

\* The step reads the end of the input.
ReadsEndOfInput == pc = "prompt" /\ scanned'.kind = "eof"

\* The step reads a line that trims to text.
ReadsLineTrimmingTo(text) ==
  /\ pc = "prompt"
  /\ scanned'.kind = "line"
  /\ TrimSpace(scanned'.line) = text

\* The step sends no request, starts no turn and leaves history as it is.
NoCallNoTurnSameHistory ==
  /\ pc' # "await"
  /\ call' = call
  /\ sent' = sent
  /\ turn' = turn
  /\ history' = history

\* C32: a line that trims to /quit or to /exit, and the end of the input,
\* make runChatLoop return nil without a request and without a change of
\* history, and nothing follows the return; a line that trims to the empty
\* string leaves the loop at the prompt, without a turn, without a request
\* and without a change of history.
C32_QuitEndsCleanlyBlankLineIgnored ==
  /\ [][(ReadsEndOfInput \/ ReadsLineTrimmingTo(<<"/", "q", "u", "i", "t">>)
           \/ ReadsLineTrimmingTo(<<"/", "e", "x", "i", "t">>))
          => (pc' = "done" /\ NoCallNoTurnSameHistory)]_vars
  /\ [][ReadsLineTrimmingTo(<<>>) => (pc' = "prompt" /\ NoCallNoTurnSameHistory)]_vars
  /\ [][pc \notin {"done", "failed"}]_vars

\* The session has ended by a line with white space around /exit, behind a
\* turn.
C32_Witness ==
  /\ pc = "done"
  /\ scanned = Scan("line", <<" ", "/", "e", "x", "i", "t", " ">>)
  /\ turn = 1
  /\ history # <<>>
  /\ sent = NoRequest

\* A line of white space was read behind a turn: the loop is at the prompt.
C32_BlankWitness ==
  /\ pc = "prompt"
  /\ scanned = Scan("line", <<" ">>)
  /\ turn = 1
  /\ history # <<>>

(***************************************************************************)
(* Properties of the timeout of bash (BashSpec).                           *)
(***************************************************************************)
\* The command was started and its process, the shell, exits by itself
\* before the timeout elapses.
ExitsBeforeTimeout ==
  /\ CommandRun
  /\ last.env.proc.kind = "exit"
  /\ last.env.proc.shell < TimeoutInForce

\* C33: the result says 'Command timed out' only for a command whose
\* process is running when the timeout elapses; a command whose process
\* exits before the timeout is reported by its exit: 'Command exited with
\* code <c>.' for a code other than 0, its output or the sentence for no
\* output for the code 0.
C33_TimedOutOnlyWhenRunningAtTimeout ==
  /\ (CommandRun /\ last.res.text.fmt = TimedOutFormat) => RunningAtTimeout
  /\ ExitsBeforeTimeout
       => /\ last.res.text.fmt # TimedOutFormat
          /\ last.env.proc.code # 0
               => (last.res.text.fmt = ExitedFormat /\ last.res.text.n = last.env.proc.code)
          /\ last.env.proc.code = 0 => last.res.text.fmt \in {NoOutputFormat, "%s"}

(***************************************************************************)
(* Properties of the repeated-failure stop and of the roles in history     *)
(* (Spec).                                                                 *)
(***************************************************************************)
\* The step stops the turn for repeated failures.
StopsForRepeatedFailures ==
  /\ pc = "roundEnd"
  /\ pc' = "prompt"

\* C34: the turn is stopped for repeated failures only behind a round whose
\* calls all failed and that follows, in the same turn, a round whose calls
\* all failed with the same failure signature: the first round of a turn, a
\* failed round behind a failed round of another signature and a failed
\* round behind a round with a call that succeeded go on to the next
\* request, without the stop message.
C34_StopOnlyForRepeatedFailedRound ==
  /\ [][StopsForRepeatedFailures => RepeatsFailedRound]_vars
  /\ [][(printed' = <<StopRepeatedFailures>>) => (pc = "roundEnd" /\ RepeatsFailedRound)]_vars
  /\ [][(pc = "roundEnd" /\ ~RepeatsFailedRound)
          => (pc' = "round" /\ printed' = <<>>)]_vars
  /\ [](call = 1 => ~prevRound.allFailed)

\* The third or a later round of a turn failed behind a round with a call
\* that succeeded: it counts as the first failure and the loop goes on to
\* the next request.
C34_Witness ==
  /\ pc = "round"
  /\ call >= 3
  /\ allToolsFailed
  /\ ~prevRound.allFailed
  /\ prevRound.calls # <<>>
  /\ repeatedFailureCount = 1
  /\ history[Len(history)].role = "user"
  /\ AllResultsFailed(history[Len(history)].content)

\* A failed round went on to the next request behind a failed round of
\* another signature.
C34_OtherSignatureWitness ==
  /\ pc = "round"
  /\ call >= 2
  /\ allToolsFailed
  /\ prevRound.allFailed
  /\ SignatureOfCalls(prevRound.calls) # SignatureOfCalls(CallsOf(toolUses))
  /\ printed = <<>>

\* No message of h has the role of the message before it.
RolesAlternate(h) == \A i \in 1..(Len(h) - 1) : h[i].role # h[i + 1].role

\* C35: the first message of history is a user message and no message of
\* history has the role of the message before it, in every state and in the
\* messages of every request.
C35_RolesAlternate ==
  /\ RolesAlternate(history)
  /\ (Len(history) = 1) => (history[1].role = "user")
  /\ (pc = "await") => RolesAlternate(sent.messages)

(***************************************************************************)
(* Properties of the truncated listing (ListSpec).                         *)
(***************************************************************************)
\* The names of all entries in the scope of the listing, sorted: what the
\* call returns without a limit.
FullListing ==
  SortStrings({EntryName(last.before, LastListDir.abs, p) : p \in ListScope})

\* C36: a listing that reports truncation returns the first max_entries
\* names of the sorted names of all entries in its scope, in the recursive
\* mode and in the other.
C36_TruncatedListingIsPrefix ==
  (ListOnDirectory /\ ListTruncationReported)
    => last.res.text = T("%s", <<>>, MarshalStrings(Take(FullListing, LastListLimit)), 0)

(***************************************************************************)
(* Properties of the failed writes (ToolSpec)                              *)
(***************************************************************************)
WriteNames == {"write_file"} \cup EditNames

\* The last call is a write_file or edit_file(s) call with an error result.
WritingCallFailed ==
  /\ Called
  /\ last.name \in WriteNames
  /\ last.res.isErr

\* C37: a write_file or edit_file(s) call that returns an error result
\* (a validation error, a path error, old_str not found or found more than
\* once, or a failure of the system while the directories are made or the
\* file is written) leaves the whole filesystem of the workspace as it was
\* before the call: no content is changed or written in part, and no parent
\* directory is new.
C37_FailedWriteLeavesWorkspace == WritingCallFailed => LeftUnchanged


(***************************************************************************)
(* Properties of the content of write_file (ToolSpec)                      *)
(***************************************************************************)
\* The names under which write_file takes its content, in their order.
ContentFields == <<"content", "text", "body", "new_str">>

\* The places in ContentFields of the fields that the input has with a
\* string; a field that is null is decoded as a field that is left out.
PresentFields ==
  {i \in 1..Len(ContentFields) :
     /\ ~Lacks(ContentFields[i])
     /\ LastRaw.f[ContentFields[i]].t = "str"}

\* The string of the first field that is present.
FirstPresentContent ==
  LastRaw.f[ContentFields[CHOOSE i \in PresentFields :
                            \A j \in PresentFields : i <= j]].s

\* The last call is a write_file call, of an input that is an object whose
\* fields are strings or null, with a path.
WriteFileWithPath ==
  /\ Called
  /\ last.name = "write_file"
  /\ LastRaw.k = "obj"
  /\ \A x \in DOMAIN LastRaw.f : LastRaw.f[x].t \in {"str", "null"}
  /\ ~LacksNonBlank("path")
  /\ last.env.fault = "none"

\* C38: write_file takes its content from the first of the fields content,
\* text, body, new_str that is present, in this order, and a content field
\* that is present wins also when it is the empty string; the empty string is
\* accepted as the content of the file; with none of the four fields the
\* call fails with a validation error and writes nothing.
C38_ContentFromFirstPresentField ==
  /\ (Called /\ last.name = "write_file" /\ PresentFields = {}) =>
       /\ last.res.isErr
       /\ isToolInputValidationError(last.res.text)
       /\ LeftUnchanged
       /\ \A a \in last.res.log : a.op \notin {"write", "mkdir"}
  /\ (WriteFileWithPath /\ PresentFields # {}) =>
       /\ (last.res.isErr /\ isToolInputValidationError(last.res.text)) =>
            (OnExistingFile /\ ~LastOverwrite)
       /\ OnFreePath =>
            /\ ~last.res.isErr
            /\ last.res.fs = WithNewFile(FirstPresentContent)
            /\ fs = last.res.fs
       /\ (OnExistingFile /\ LastOverwrite) =>
            /\ ~last.res.isErr
            /\ last.res.fs = WithContent(last.before, LastTarget.abs,
                                         FirstPresentContent)
            /\ fs = last.res.fs

\* A write_file call with an empty content beside a text that is not empty
\* has made an empty file.
C38_Witness ==
  /\ WriteFileWithPath
  /\ OnFreePath
  /\ ~Lacks("content")
  /\ ~Lacks("text")
  /\ LastRaw.f["content"] = JStr(<<>>)
  /\ LastRaw.f["text"] = JStr(<<"a">>)
  /\ ~last.res.isErr
  /\ fs[LastTarget.abs] = FileNode(<<>>)

\* A write_file call with a path and none of the four fields was rejected.
C38_MissingWitness ==
  /\ WriteFileWithPath
  /\ PresentFields = {}
  /\ last.res.isErr

\* A write_file call without content has taken the text before the body and
\* new_str.
C38_AliasWitness ==
  /\ WriteFileWithPath
  /\ OnFreePath
  /\ PresentFields = {2, 3, 4}
  /\ fs[LastTarget.abs] = FileNode(<<"a">>)

=============================================================================
